---- MODULE Spec2Model ----
(***************************************************************************)
(* Model of io_scene_x3d/export_x3d.py: the X3D exporter.                  *)
(*                                                                         *)
(* Text is modelled as sequences of one-character strings, the output file *)
(* as a sequence of node tokens (one per element written by fw), Python's  *)
(* None as 0 and data-block references as positive integers.               *)
(***************************************************************************)
EXTENDS Integers, Sequences, FiniteSets, TLC

None == 0

(***************************************************************************)
(* Bounds                                                                  *)
(***************************************************************************)
\* most objects selected for one export
MaxObjects == 3
\* most faces of a generated mesh
MaxFaces == 2
\* most dummy materials the H3D profile may have left in bpy.data.materials
MaxDummies == 2

\* the length of the names of the objects of InitNames
MaxNameLen == 3

\* the calls of secureName between two resets of its counter
MaxCalls == 3

(***************************************************************************)
(* Strings                                                                 *)
(***************************************************************************)
Digits == <<"0", "1", "2", "3", "4", "5", "6", "7", "8", "9">>

isdigit(c) == \E i \in 1..Len(Digits) : Digits[i] = c

\* code point of the characters that occur in names
ord(c) ==
    CASE c = " " -> 32
      [] c = "\"" -> 34
      [] c = "#" -> 35
      [] c = "'" -> 39
      [] c = "," -> 44
      [] c = "." -> 46
      [] isdigit(c) -> 47 + CHOOSE i \in 1..Len(Digits) : Digits[i] = c
      [] c = "D" -> 68
      [] c = "I" -> 73
      [] c = "L" -> 76
      [] c = "O" -> 79
      [] c = "S" -> 83
      [] c = "_" -> 95
      [] c = "a" -> 97
      [] c = "b" -> 98
      [] c = "c" -> 99
      [] OTHER -> 120

\* Python's < on str
RECURSIVE str_lt(_, _)
str_lt(a, b) ==
    IF b = <<>> THEN FALSE
    ELSE IF a = <<>> THEN TRUE
    ELSE IF ord(Head(a)) # ord(Head(b)) THEN ord(Head(a)) < ord(Head(b))
    ELSE str_lt(Tail(a), Tail(b))

\* Python's str(n), n >= 0
RECURSIVE str(_)
str(n) == IF n < 10 THEN <<Digits[n + 1]>> ELSE str(n \div 10) \o <<Digits[(n % 10) + 1]>>

\* Python's s.replace(bad, new): leftmost non-overlapping occurrences
RECURSIVE replace(_, _, _)
replace(s, bad, new) ==
    IF Len(s) < Len(bad) THEN s
    ELSE IF SubSeq(s, 1, Len(bad)) = bad
         THEN new \o replace(SubSeq(s, Len(bad) + 1, Len(s)), bad, new)
         ELSE <<Head(s)>> \o replace(Tail(s), bad, new)

RECURSIVE replace_all(_, _, _)
replace_all(s, bads, new) ==
    IF bads = <<>> THEN s ELSE replace_all(replace(s, Head(bads), new), Tail(bads), new)

\* the reserved node names that can be spelled with the characters of ord
x3d_names_reserved == {<<"I", "S">>, <<"L", "O", "D">>}

clean_str_bad ==
    << <<" ">>, <<"\"">>, <<"#">>, <<"'">>, <<",", " ">>, <<".">>, <<"[">>, <<"\\">>, <<"]">>,
       <<"{">>, <<"}">> >>

rsvd_ == <<"r", "s", "v", "d", "_">>

\* clean_str without the prefix of lines 82-83
clean_str_unprefixed(name, prefix) ==
    LET newName2 == IF isdigit(name[1]) THEN <<"_">> \o name ELSE name
    IN  replace_all(newName2, clean_str_bad, <<"_">>)

clean_str(name, prefix) ==
    LET newName1 == IF name \in x3d_names_reserved THEN prefix \o name ELSE name
        newName2 == IF isdigit(newName1[1]) THEN <<"_">> \o newName1 ELSE newName1
    IN  replace_all(newName2, clean_str_bad, <<"_">>)

secureName_bad ==
    << <<"\"">>, <<"#">>, <<"'">>, <<",", " ">>, <<".">>, <<"[">>, <<"\\">>, <<"]">>, <<"{">>, <<"}">> >>

\* secureName(name) with secureName.nodeID = nodeID; the counter afterwards is nodeID + 1
secureName(name, nodeID) ==
    LET name1 == name \o str(nodeID)
        name2 == replace_all(name1, secureName_bad, <<"_">>)
    IN  IF Len(name1) <= 3 THEN <<"_">> \o str(nodeID + 1)
        ELSE IF name2 \in x3d_names_reserved THEN SubSeq(name2, 1, 3) \o <<"_">> \o str(nodeID + 1)
        ELSE IF isdigit(name2[1]) THEN <<"_">> \o name2 \o str(nodeID + 1)
        ELSE name2


(***************************************************************************)
(* The output file: one token per element written through fw.  def and use *)
(* hold the identifier of a DEF= or USE= attribute (<<>> when the element  *)
(* has none), asset the data block the element was written for, data its   *)
(* other attributes.                                                       *)
(***************************************************************************)
NoId == <<>>

NoData == [none |-> TRUE]

Tok(node, kind, d, u, asset, data) ==
    [node |-> node, kind |-> kind, def |-> d, use |-> u, asset |-> asset, data |-> data]

Open(node, data) == Tok(node, "open", NoId, NoId, None, data)

Close(node) == Tok(node, "close", NoId, NoId, None, NoData)

Empty(node, data) == Tok(node, "empty", NoId, NoId, None, data)

\* fw(...): append to the file; nothing is written once an exception is propagating
fw(w, tok) == IF w.ok THEN [w EXCEPT !.out = Append(@, tok)] ELSE w

\* several fw(...) in a row
fws(w, toks) == IF w.ok THEN [w EXCEPT !.out = @ \o toks] ELSE w

\* an uncaught exception: export() is left, the file keeps what was written
raise(w) == [w EXCEPT !.ok = FALSE]

(***************************************************************************)
(* Sets                                                                    *)
(***************************************************************************)
Range(s) == {s[i] : i \in 1..Len(s)}

Min(S) == CHOOSE x \in S : \A y \in S : x <= y

Max(S) == CHOOSE x \in S : \A y \in S : y <= x

(***************************************************************************)
(* Colours and factors are floats in the code; here they are counted in    *)
(* thousandths, with the division of the integers for the float division.  *)
(***************************************************************************)
\* the float 1.0
One == 1000

\* lines 72-73
clamp_color(col) == [i \in 1..Len(col) |-> Max({Min({col[i], One}), 0})]

\* '%.3g' of a float from 0 up to 10: three significant digits
fmt_3g(x) == IF x < One THEN x ELSE ((x + 5) \div 10) * 10

fmt_3g_color(col) == [i \in 1..Len(col) |-> fmt_3g(col[i])]


(***************************************************************************)
(* writeIndexedFaceSet: materials and images of the mesh (lines 339-376)   *)
(***************************************************************************)
mesh_materials_of(mesh) == IF mesh.materials = <<>> THEN <<None>> ELSE mesh.materials

\* index of the first texture slot holding an image texture with an image, 0 if none
first_image_slot(material) ==
    LET slots == material.texture_slots
        good == {k \in 1..Len(slots) :
                    slots[k].mtex /\ slots[k].tex /\ slots[k].type = "IMAGE" /\ slots[k].image # None}
    IN  IF good = {} THEN 0 ELSE Min(good)

mesh_material_mtex_of(materials, mesh) ==
    LET mm == mesh_materials_of(mesh)
    IN  [i \in 1..Len(mm) |-> IF mm[i] # None THEN first_image_slot(materials[mm[i]]) ELSE 0]

mesh_material_images_of(materials, mesh) ==
    LET mm == mesh_materials_of(mesh)
        mtex == mesh_material_mtex_of(materials, mesh)
    IN  [i \in 1..Len(mm) |->
            IF mtex[i] # 0 THEN materials[mm[i]].texture_slots[mtex[i]].image ELSE None]

mesh_materials_use_face_texture_of(materials, mesh) ==
    LET mm == mesh_materials_of(mesh)
    IN  [i \in 1..Len(mm) |-> IF mm[i] # None THEN materials[mm[i]].use_face_texture ELSE TRUE]

is_uv_of(mesh) == mesh.uv_textures_active

\* mesh_faces_image_of that does not read use_image
mesh_faces_image_of_any_face(materials, mesh) ==
    LET uft == mesh_materials_use_face_texture_of(materials, mesh)
        mimg == mesh_material_images_of(materials, mesh)
        faces == mesh.faces
    IN  IF is_uv_of(mesh) /\ TRUE \in Range(uft)
        THEN [i \in 1..Len(faces) |->
                IF uft[faces[i].material_index + 1]
                THEN mesh.uv_data[i].image
                ELSE mimg[faces[i].material_index + 1]]
        ELSE IF Cardinality(Range(mimg) \cup {None}) > 1
        THEN [i \in 1..Len(faces) |-> mimg[faces[i].material_index + 1]]
        ELSE [i \in 1..Len(faces) |-> None]

\* lines 368-376: the image of every face
mesh_faces_image_of(materials, mesh) ==
    LET uft == mesh_materials_use_face_texture_of(materials, mesh)
        mimg == mesh_material_images_of(materials, mesh)
        faces == mesh.faces
    IN  IF is_uv_of(mesh) /\ TRUE \in Range(uft)
        THEN [i \in 1..Len(faces) |->
                IF uft[faces[i].material_index + 1] /\ mesh.uv_data[i].use_image
                THEN mesh.uv_data[i].image
                ELSE mimg[faces[i].material_index + 1]]
        ELSE IF Cardinality(Range(mimg) \cup {None}) > 1
        THEN [i \in 1..Len(faces) |-> mimg[faces[i].material_index + 1]]
        ELSE [i \in 1..Len(faces) |-> None]

mesh_faces_image_unique_of(materials, mesh) ==
    LET uft == mesh_materials_use_face_texture_of(materials, mesh)
        mimg == mesh_material_images_of(materials, mesh)
    IN  IF (is_uv_of(mesh) /\ TRUE \in Range(uft)) \/ Cardinality(Range(mimg) \cup {None}) > 1
        THEN Range(mesh_faces_image_of(materials, mesh))
        ELSE {None}

(***************************************************************************)
(* writeIndexedFaceSet: face groups (lines 378-390)                        *)
(***************************************************************************)
\* lines 379-382: the keys of face_groups in insertion order, each with an empty list
RECURSIVE face_groups_new(_, _, _)
face_groups_new(material_index, n_materials, images) ==
    IF material_index >= n_materials THEN <<>>
    ELSE [k \in 1..Len(images) |->
            [material_index |-> material_index, image |-> images[k], face_group |-> <<>>]]
         \o face_groups_new(material_index + 1, n_materials, images)

\* face_groups_fill that looks at the material of the face alone
RECURSIVE face_groups_fill_by_material(_, _, _, _)
face_groups_fill_by_material(groups, i, mesh_faces_materials, mesh_faces_image) ==
    IF i >= Len(mesh_faces_materials) THEN groups
    ELSE face_groups_fill_by_material(
            [k \in 1..Len(groups) |->
                IF groups[k].material_index = mesh_faces_materials[i + 1]
                THEN [groups[k] EXCEPT !.face_group = Append(@, i)]
                ELSE groups[k]],
            i + 1, mesh_faces_materials, mesh_faces_image)

\* lines 385-386: face_groups[material_index, image].append(i) for every face, in face order
RECURSIVE face_groups_fill(_, _, _, _)
face_groups_fill(groups, i, mesh_faces_materials, mesh_faces_image) ==
    IF i >= Len(mesh_faces_materials) THEN groups
    ELSE face_groups_fill(
            [k \in 1..Len(groups) |->
                IF groups[k].material_index = mesh_faces_materials[i + 1]
                   /\ groups[k].image = mesh_faces_image[i + 1]
                THEN [groups[k] EXCEPT !.face_group = Append(@, i)]
                ELSE groups[k]],
            i + 1, mesh_faces_materials, mesh_faces_image)

\* line 390: the sort key (m[0][0], getattr(m[0][1], 'name', ''))
image_name(images, image) == IF image = None THEN <<>> ELSE images[image].name

face_group_key_lt(images, a, b) ==
    \/ a.material_index < b.material_index
    \/ /\ a.material_index = b.material_index
       /\ str_lt(image_name(images, a.image), image_name(images, b.image))

\* list.sort(key=...): stable, ascending
RECURSIVE face_groups_sort_from(_, _, _)
face_groups_sort_from(images, sorted, rest) ==
    IF rest = <<>> THEN sorted
    ELSE LET x == Head(rest)
             after == {k \in 1..Len(sorted) : face_group_key_lt(images, x, sorted[k])}
             at == IF after = {} THEN Len(sorted) + 1 ELSE Min(after)
         IN  face_groups_sort_from(
                images,
                SubSeq(sorted, 1, at - 1) \o <<x>> \o SubSeq(sorted, at, Len(sorted)),
                Tail(rest))

\* face_groups_sort that leaves the list as it is
face_groups_sort_none(images, items) == items

face_groups_sort(images, items) == face_groups_sort_from(images, <<>>, items)

\* line 389: list(face_groups.items()), in the order of insertion or in the opposite one
face_groups_items_list(face_groups, reversed) ==
    IF reversed THEN [k \in 1..Len(face_groups) |-> face_groups[Len(face_groups) + 1 - k]]
    ELSE face_groups

\* lines 378-390: face_groups_items.  order.unique is mesh_faces_image_unique in the order
\* the for statement of line 381 iterates over the set, order.reversed the order in which
\* the dict face_groups is iterated at line 389.
face_groups_items_of(materials, images, mesh, order) ==
    face_groups_sort(
        images,
        face_groups_items_list(
            face_groups_fill(face_groups_new(0, Len(mesh_materials_of(mesh)), order.unique), 0,
                             [i \in 1..Len(mesh.faces) |-> mesh.faces[i].material_index],
                             mesh_faces_image_of(materials, mesh)),
            order.reversed))

\* the orders in which a Python set may be iterated
set_orders(S) == {s \in [1..Cardinality(S) -> S] : \A x \in S : \E i \in 1..Cardinality(S) : s[i] = x}

\* the orders in which the set and the dict of the face grouping may be iterated
iteration_orders(S) == [unique : set_orders(S), reversed : BOOLEAN]

(***************************************************************************)
(* The writers thread the record w through their statements:               *)
(*   w.out        the file written so far                                  *)
(*   w.meshes, w.materials, w.images    bpy.data, with the tag of each ID  *)
(*   w.ok         FALSE once an exception left export()                    *)
(*   w.mesh_faces, w.face_groups_items   those locals of the last mesh     *)
(*                written in full                                          *)
(***************************************************************************)

(***************************************************************************)
(* writeImageTexture (lines 918-939)                                       *)
(***************************************************************************)
\* writeImageTexture whose USE= takes the name of the image as it is
writeImageTexture_raw_use(w, image) ==
    LET name == w.images[image].name
    IN  IF ~w.ok THEN w
        ELSE IF w.images[image].tag
        THEN fw(w, Tok("ImageTexture", "empty", NoId, name, image, NoData))
        ELSE fw([w EXCEPT !.images[image].tag = TRUE],
                Tok("ImageTexture", "empty", clean_str(name, rsvd_), NoId, image,
                    [filepath |-> w.images[image].filepath]))

writeImageTexture(w, image) ==
    LET name == w.images[image].name
    IN  IF ~w.ok THEN w
        ELSE IF w.images[image].tag
        THEN fw(w, Tok("ImageTexture", "empty", NoId, clean_str(name, rsvd_), image, NoData))
        ELSE fw([w EXCEPT !.images[image].tag = TRUE],
                Tok("ImageTexture", "empty", clean_str(name, rsvd_), NoId, image,
                    [filepath |-> w.images[image].filepath]))

(***************************************************************************)
(* writeMaterial (lines 722-754)                                           *)
(***************************************************************************)
\* lines 729-745: the attributes of the Material element
ambiColor(mat, world) ==
    IF world.present
    THEN [i \in 1..3 |-> ((world.ambient_color[i] * mat.ambient) \div One) * 2]
    ELSE <<0, 0, 0>>

emitColor(mat, world) ==
    [i \in 1..3 |-> (((mat.diffuse_color[i] * mat.emit) \div One) + ambiColor(mat, world)[i]) \div 2]

specColor(mat) ==
    [i \in 1..3 |-> ((mat.specular_color[i] + 1) * (mat.specular_intensity + 1)) \div ((5 * One) \div 4)]

\* lines 747-754: what the attributes of the Material element read
Material_attributes_lit(mat, world) ==
    [diffuseColor |-> fmt_3g_color(clamp_color(mat.diffuse_color)),
     specularColor |-> fmt_3g_color(clamp_color(specColor(mat))),
     emissiveColor |-> fmt_3g_color(clamp_color(emitColor(mat, world))),
     ambientIntensity |-> fmt_3g(mat.ambient \div 3),
     shininess |-> fmt_3g((mat.specular_hardness * One) \div 512),
     transparency |-> One - mat.alpha]

\* Material_attributes where shadeless leaves the emissive colour as computed
Material_attributes_lit_emissive(mat, world) ==
    IF mat.use_shadeless
    THEN [diffuseColor |-> fmt_3g_color(clamp_color(mat.diffuse_color)),
          specularColor |-> fmt_3g_color(clamp_color(mat.diffuse_color)),
          emissiveColor |-> fmt_3g_color(clamp_color(emitColor(mat, world))),
          ambientIntensity |-> fmt_3g(One),
          shininess |-> fmt_3g(0),
          transparency |-> One - mat.alpha]
    ELSE Material_attributes_lit(mat, world)

Material_attributes(mat, world) ==
    IF mat.use_shadeless
    THEN [diffuseColor |-> fmt_3g_color(clamp_color(mat.diffuse_color)),
          specularColor |-> fmt_3g_color(clamp_color(mat.diffuse_color)),
          emissiveColor |-> fmt_3g_color(clamp_color(mat.diffuse_color)),
          ambientIntensity |-> fmt_3g(One),
          shininess |-> fmt_3g(0),
          transparency |-> One - mat.alpha]
    ELSE Material_attributes_lit(mat, world)

\* writeMaterial that leaves the tag of the material alone
writeMaterial_untagged(w, mat, material_id, world) ==
    IF ~w.ok THEN w
    ELSE IF w.materials[mat].tag
    THEN fw(w, Tok("Material", "empty", NoId, <<"M", "A", "_">> \o material_id, mat, NoData))
    ELSE fw(w, Tok("Material", "empty", <<"M", "A", "_">> \o material_id, NoId, mat,
                   Material_attributes(w.materials[mat], world)))

writeMaterial(w, mat, material_id, world) ==
    IF ~w.ok THEN w
    ELSE IF w.materials[mat].tag
    THEN fw(w, Tok("Material", "empty", NoId, <<"M", "A", "_">> \o material_id, mat, NoData))
    ELSE fw([w EXCEPT !.materials[mat].tag = TRUE],
            Tok("Material", "empty", <<"M", "A", "_">> \o material_id, NoId, mat,
                Material_attributes(w.materials[mat], world)))

(***************************************************************************)
(* gpu.export_shader (lines 119, 411): the external shader introspection.  *)
(* Its uniforms name the images bound to the material's texture slots.     *)
(***************************************************************************)
gpu_export_shader(materials, mat) ==
    LET slots == materials[mat].texture_slots
        bound == SelectSeq(slots, LAMBDA s : s.mtex /\ s.tex /\ s.type = "IMAGE" /\ s.image # None)
    IN  [sampler_images |-> [k \in 1..Len(bound) |-> bound[k].image]]

(***************************************************************************)
(* writeMaterialH3D (lines 756-916)                                        *)
(***************************************************************************)
RECURSIVE writeUniforms(_, _, _)
writeUniforms(w, sampler_images, k) ==
    IF k > Len(sampler_images) THEN w
    ELSE writeUniforms(
            fw(writeImageTexture(fw(w, Open("field", NoData)), sampler_images[k]), Close("field")),
            sampler_images, k + 1)

writeMaterialH3D(w, mat, material_id, world, ob, gpu_shader) ==
    LET w1 == fw(w, Empty("Material", NoData))
    IN  IF ~w.ok THEN w
        ELSE IF w.materials[mat].tag
        THEN fw(w1, Tok("ComposedShader", "empty", NoId, <<"M", "A", "_">> \o material_id, mat, NoData))
        ELSE LET w2 == fw([w1 EXCEPT !.materials[mat].tag = TRUE],
                          Tok("ComposedShader", "open", <<"M", "A", "_">> \o material_id, NoId, mat,
                              NoData))
                 w3 == writeUniforms(w2, gpu_shader.sampler_images, 1)
                 w4 == fw(fw(w3, Empty("ShaderPart", [type |-> "FRAGMENT", url |-> material_id])),
                          Empty("ShaderPart", [type |-> "VERTEX", url |-> material_id]))
             IN  fw(w4, Close("ComposedShader"))

(***************************************************************************)
(* writeIndexedFaceSet: the TextureTransform of a face group (430-455)     *)
(***************************************************************************)
\* writeTextureTransform that does not read use_tiles
writeTextureTransform_tiled(w, materials, images, mesh, material_index, image) ==
    LET mm == mesh_materials_of(mesh)
        uft == mesh_materials_use_face_texture_of(materials, mesh)
        mtex == materials[mm[material_index + 1]].texture_slots[
                    mesh_material_mtex_of(materials, mesh)[material_index + 1]]
        sca_x == mtex.scale[1] * mtex.repeat_x
        sca_y == mtex.scale[2] * mtex.repeat_y
    IN  IF uft[material_index + 1]
        THEN fw(w, Empty("TextureTransform",
                         [scale |-> <<images[image].tiles_x, images[image].tiles_y>>]))
        ELSE IF mtex.use_flip_axis
             THEN fw(w, Empty("TextureTransform",
                              [translation |-> mtex.offset, scale |-> <<sca_y, -sca_x>>,
                               rotation |-> "pi / -2.0"]))
             ELSE fw(w, Empty("TextureTransform",
                              [translation |-> mtex.offset, scale |-> <<sca_x, sca_y>>,
                               rotation |-> "0.0"]))

writeTextureTransform(w, materials, images, mesh, material_index, image) ==
    LET mm == mesh_materials_of(mesh)
        uft == mesh_materials_use_face_texture_of(materials, mesh)
        mtex == materials[mm[material_index + 1]].texture_slots[
                    mesh_material_mtex_of(materials, mesh)[material_index + 1]]
        sca_x == mtex.scale[1] * mtex.repeat_x
        sca_y == mtex.scale[2] * mtex.repeat_y
    IN  IF uft[material_index + 1]
        THEN IF images[image].use_tiles
             THEN fw(w, Empty("TextureTransform",
                              [scale |-> <<images[image].tiles_x, images[image].tiles_y>>]))
             ELSE w
        ELSE IF mtex.use_flip_axis
             THEN fw(w, Empty("TextureTransform",
                              [translation |-> mtex.offset, scale |-> <<sca_y, -sca_x>>,
                               rotation |-> "pi / -2.0"]))
             ELSE fw(w, Empty("TextureTransform",
                              [translation |-> mtex.offset, scale |-> <<sca_x, sca_y>>,
                               rotation |-> "0.0"]))


(***************************************************************************)
(* writeIndexedFaceSet: IndexedTriangleSet of a face group (472-611)       *)
(***************************************************************************)
\* lines 488-514: the None of the last def is written <<>>
vertex_key(mesh, is_uv, is_col, fidx, f_cnr_idx) ==
    IF is_uv /\ is_col
    THEN <<mesh.uv_data[fidx + 1].uv[f_cnr_idx + 1], mesh.col_data[fidx + 1].color[f_cnr_idx + 1]>>
    ELSE IF is_uv THEN <<mesh.uv_data[fidx + 1].uv[f_cnr_idx + 1]>>
    ELSE IF is_col THEN <<mesh.col_data[fidx + 1].color[f_cnr_idx + 1]>>
    ELSE <<>>

\* an x3d_v is the tuple <<key, original vertex, new vertex>>; <<>> stands for None
X3dNone == <<>>

\* vh.get(key) on the dict of one original vertex, kept as the set of its values
vh_get(vh, key) ==
    IF \E x \in vh : x[1] = key THEN CHOOSE x \in vh : x[1] = key ELSE X3dNone

\* weld_init that numbers the vertices from 1
weld_init_from_one(mesh) ==
    [vertex_hash |-> [v \in 1..Len(mesh.vertices) |-> {}],
     face_tri_list |-> [t \in 1..(Len(mesh.faces) * 2) |-> <<X3dNone, X3dNone, X3dNone>>],
     vert_tri_list |-> <<>>,
     totvert |-> 1,
     totface |-> 0,
     temp_face |-> <<X3dNone, X3dNone, X3dNone, X3dNone>>]

\* lines 517-523
weld_init(mesh) ==
    [vertex_hash |-> [v \in 1..Len(mesh.vertices) |-> {}],
     face_tri_list |-> [t \in 1..(Len(mesh.faces) * 2) |-> <<X3dNone, X3dNone, X3dNone>>],
     vert_tri_list |-> <<>>,
     totvert |-> 0,
     totface |-> 0,
     temp_face |-> <<X3dNone, X3dNone, X3dNone, X3dNone>>]

\* weld_corner that never looks the key up
weld_corner_unwelded(ws, key, v_idx, j) ==
    [ws EXCEPT !.vertex_hash[v_idx + 1] = @ \cup {<<key, v_idx, ws.totvert>>},
               !.vert_tri_list = Append(@, <<key, v_idx, ws.totvert>>),
               !.totvert = @ + 1,
               !.temp_face[j + 1] = <<key, v_idx, ws.totvert>>]

\* lines 526-536: one corner
weld_corner(ws, key, v_idx, j) ==
    LET vh == ws.vertex_hash[v_idx + 1]
        found == vh_get(vh, key)
        x3d_v == IF found = X3dNone THEN <<key, v_idx, ws.totvert>> ELSE found
    IN  IF found = X3dNone
        THEN [ws EXCEPT !.vertex_hash[v_idx + 1] = vh \cup {x3d_v},
                        !.vert_tri_list = Append(@, x3d_v),
                        !.totvert = @ + 1,
                        !.temp_face[j + 1] = x3d_v]
        ELSE [ws EXCEPT !.temp_face[j + 1] = x3d_v]

RECURSIVE weld_corners(_, _, _, _, _, _)
weld_corners(ws, mesh, is_uv, is_col, i, j) ==
    LET fv == mesh.faces[i + 1].vertices
    IN  IF j >= Len(fv) THEN ws
        ELSE weld_corners(weld_corner(ws, vertex_key(mesh, is_uv, is_col, i, j), fv[j + 1], j),
                          mesh, is_uv, is_col, i, j + 1)

\* f_iter_of that cuts a quad into a strip
f_iter_of_strip(fv) == IF Len(fv) = 4 THEN << <<0, 1, 2>>, <<1, 2, 3>> >> ELSE << <<0, 1, 2>> >>

\* lines 538-541
f_iter_of(fv) == IF Len(fv) = 4 THEN << <<0, 1, 2>>, <<0, 2, 3>> >> ELSE << <<0, 1, 2>> >>

\* lines 543-549
RECURSIVE weld_tris(_, _, _)
weld_tris(ws, f_iter, n) ==
    IF n > Len(f_iter) THEN ws
    ELSE LET f_it == f_iter[n]
             f_tri == [ji \in 1..3 |-> ws.temp_face[f_it[ji] + 1]]
         IN  weld_tris([ws EXCEPT !.face_tri_list[ws.totface + 1] = f_tri, !.totface = @ + 1],
                       f_iter, n + 1)

\* lines 524-552
RECURSIVE weld_faces(_, _, _, _, _, _)
weld_faces(ws, mesh, is_uv, is_col, face_group, k) ==
    IF k > Len(face_group)
    THEN [ws EXCEPT !.face_tri_list = [t \in 1..ws.totface |-> ws.face_tri_list[t]]]
    ELSE LET i == face_group[k]
             ws1 == weld_corners(ws, mesh, is_uv, is_col, i, 0)
             ws2 == weld_tris(ws1, f_iter_of(mesh.faces[i + 1].vertices), 1)
         IN  weld_faces(ws2, mesh, is_uv, is_col, face_group, k + 1)

\* weld that goes on from the table the faces of the mesh before the group have filled
weld_per_mesh(mesh, is_uv, is_col, face_group) ==
    weld_faces([weld_faces(weld_init(mesh), mesh, is_uv, is_col,
                           [k \in 1..face_group[1] |-> k - 1], 1)
                    EXCEPT !.face_tri_list = weld_init(mesh).face_tri_list, !.totface = 0],
               mesh, is_uv, is_col, face_group, 1)

\* lines 517-552
weld(mesh, is_uv, is_col, face_group) ==
    weld_faces(weld_init(mesh), mesh, is_uv, is_col, face_group, 1)

\* lines 554-611 on the result ws of the welding; x3d_v[0][slot_uv] is the first entry
\* of the key, x3d_v[0][slot_col] the last
IndexedTriangleSet(ws, mesh, is_uv, is_col, is_smooth, opt, gpu_shader) ==
    <<Open("IndexedTriangleSet",
           [solid |-> mesh.show_double_sided,
            creaseAngle |-> IF is_smooth THEN mesh.auto_smooth_angle ELSE -1,
            normalPerVertex |-> opt.use_normals,
            index |-> [t \in 1..Len(ws.face_tri_list) |->
                         <<ws.face_tri_list[t][1][3], ws.face_tri_list[t][2][3],
                           ws.face_tri_list[t][3][3]>>]]),
      Empty("Coordinate",
            [point |-> [n \in 1..Len(ws.vert_tri_list) |-> mesh.vertices[ws.vert_tri_list[n][2] + 1].co],
             vertex |-> [n \in 1..Len(ws.vert_tri_list) |-> ws.vert_tri_list[n][2]]])>>
    \o (IF opt.use_normals
        THEN <<Empty("Normal",
                     [vector |-> [n \in 1..Len(ws.vert_tri_list) |->
                                    mesh.vertices[ws.vert_tri_list[n][2] + 1].normal]])>>
        ELSE <<>>)
    \o (IF is_uv
        THEN <<Empty("TextureCoordinate",
                     [point |-> [n \in 1..Len(ws.vert_tri_list) |-> ws.vert_tri_list[n][1][1]]])>>
        ELSE <<>>)
    \o (IF is_col
        THEN <<Empty("Color",
                     [color |-> [n \in 1..Len(ws.vert_tri_list) |->
                                   fmt_3g_color(ws.vert_tri_list[n][1][Len(ws.vert_tri_list[n][1])])]])>>
        ELSE <<>>)
    \o (IF opt.use_h3d /\ is_uv /\ gpu_shader.sampler_images # <<>>
        THEN <<Empty("FloatVertexAttribute",
                     [value |-> [n \in 1..Len(ws.vert_tri_list) |-> ws.vert_tri_list[n][1][1]]])>>
        ELSE <<>>)
    \o <<Close("IndexedTriangleSet")>>

\* lines 473-611
writeIndexedTriangleSet(w, mesh, is_uv, is_col, is_smooth, face_group, opt, gpu_shader) ==
    fws(w, IndexedTriangleSet(weld(mesh, is_uv, is_col, face_group), mesh, is_uv, is_col,
                              is_smooth, opt, gpu_shader))

(***************************************************************************)
(* writeIndexedFaceSet: IndexedFaceSet of a face group (613-701)           *)
(***************************************************************************)
\* texCoordIndex_of that counts the corners of every face from 0
RECURSIVE texCoordIndex_of_per_face(_, _, _, _)
texCoordIndex_of_per_face(mesh, face_group, k, j) ==
    IF k > Len(face_group) THEN <<>>
    ELSE IF Len(mesh.faces[face_group[k] + 1].vertices) = 4
    THEN <<0, 1, 2, 3, -1>> \o texCoordIndex_of_per_face(mesh, face_group, k + 1, j)
    ELSE <<0, 1, 2, -1>> \o texCoordIndex_of_per_face(mesh, face_group, k + 1, j)

\* lines 634-641
RECURSIVE texCoordIndex_of(_, _, _, _)
texCoordIndex_of(mesh, face_group, k, j) ==
    IF k > Len(face_group) THEN <<>>
    ELSE IF Len(mesh.faces[face_group[k] + 1].vertices) = 4
    THEN <<j, j + 1, j + 2, j + 3, -1>> \o texCoordIndex_of(mesh, face_group, k + 1, j + 4)
    ELSE <<j, j + 1, j + 2, -1>> \o texCoordIndex_of(mesh, face_group, k + 1, j + 3)

\* lines 647-652
RECURSIVE coordIndex_of(_, _, _)
coordIndex_of(mesh, face_group, k) ==
    IF k > Len(face_group) THEN <<>>
    ELSE mesh.faces[face_group[k] + 1].vertices \o <<-1>> \o coordIndex_of(mesh, face_group, k + 1)

\* lines 683-685
RECURSIVE texCoord_points(_, _, _)
texCoord_points(mesh, face_group, k) ==
    IF k > Len(face_group) THEN <<>>
    ELSE mesh.uv_data[face_group[k] + 1].uv \o texCoord_points(mesh, face_group, k + 1)

\* lines 661-679: the coordinates and normals of the mesh, written once and used after
Coordinate(mesh, mesh_id, mesh_name_x3d, opt, is_coords_written) ==
    (IF is_coords_written
     THEN <<Tok("Coordinate", "empty", NoId, <<"c", "o", "o", "r", "d", "_">> \o mesh_name_x3d,
                mesh_id, NoData)>>
     ELSE <<Tok("Coordinate", "empty", <<"c", "o", "o", "r", "d", "_">> \o mesh_name_x3d, NoId,
                mesh_id, [point |-> [n \in 1..Len(mesh.vertices) |-> mesh.vertices[n].co]])>>)
    \o (IF ~opt.use_normals THEN <<>>
        ELSE IF is_coords_written
        THEN <<Tok("Normal", "empty", NoId,
                   <<"n", "o", "r", "m", "a", "l", "s", "_">> \o mesh_name_x3d, mesh_id, NoData)>>
        ELSE <<Tok("Normal", "empty", <<"n", "o", "r", "m", "a", "l", "s", "_">> \o mesh_name_x3d,
                   NoId, mesh_id,
                   [vector |-> [n \in 1..Len(mesh.vertices) |-> mesh.vertices[n].normal]])>>)

\* lines 614-701
IndexedFaceSet(mesh, mesh_id, mesh_name_x3d, is_uv, is_col, is_smooth, face_group, opt, is_coords_written) ==
    <<Open("IndexedFaceSet",
           [solid |-> mesh.show_double_sided,
            creaseAngle |-> IF is_smooth THEN mesh.auto_smooth_angle ELSE -1,
            normalPerVertex |-> opt.use_normals,
            colorPerVertex |-> ~is_col,
            texCoordIndex |-> IF is_uv THEN texCoordIndex_of(mesh, face_group, 1, 0) ELSE <<>>,
            coordIndex |-> coordIndex_of(mesh, face_group, 1)])>>
    \o Coordinate(mesh, mesh_id, mesh_name_x3d, opt, is_coords_written)
    \o (IF is_uv
        THEN <<Empty("TextureCoordinate", [point |-> texCoord_points(mesh, face_group, 1)])>>
        ELSE <<>>)
    \o (IF is_col
        THEN <<Empty("Color", [color |-> [k \in 1..Len(face_group) |->
                                            fmt_3g_color(mesh.col_data[face_group[k] + 1].color[1])]])>>
        ELSE <<>>)
    \o <<Close("IndexedFaceSet")>>

\* writeIndexedFaceSetNode that leaves is_coords_written as it was
writeIndexedFaceSetNode_unset(w, mesh, mesh_id, mesh_name_x3d, is_uv, is_col, is_smooth, face_group, opt, is_coords_written) ==
    <<fws(w, IndexedFaceSet(mesh, mesh_id, mesh_name_x3d, is_uv, is_col, is_smooth, face_group,
                            opt, is_coords_written)),
      is_coords_written>>

\* lines 614-701; the result is <<w, is_coords_written>>
writeIndexedFaceSetNode(w, mesh, mesh_id, mesh_name_x3d, is_uv, is_col, is_smooth, face_group, opt, is_coords_written) ==
    <<fws(w, IndexedFaceSet(mesh, mesh_id, mesh_name_x3d, is_uv, is_col, is_smooth, face_group,
                            opt, is_coords_written)),
      TRUE>>

(***************************************************************************)
(* writeIndexedFaceSet: one face group (lines 393-704)                     *)
(* opt holds the arguments of export() and its local gpu_shader_dummy_mat. *)
(* gs is <<w, is_coords_written>>.                                         *)
(***************************************************************************)
\* lines 427-455
writeShapeTexture(w, mesh, material_index, image, opt) ==
    IF image # None /\ ~opt.use_h3d
    THEN writeTextureTransform(writeImageTexture(w, image), w.materials, w.images, mesh,
                               material_index, image)
    ELSE w

\* lines 457-463: material.name of line 463 raises AttributeError when material is None
writeShapeMaterial(w, material, world, ob, opt) ==
    IF opt.use_h3d
    THEN writeMaterialH3D(w, IF material # None THEN material ELSE opt.gpu_shader_dummy_mat,
                          clean_str(w.materials[IF material # None THEN material
                                                ELSE opt.gpu_shader_dummy_mat].name, <<>>),
                          world, ob,
                          gpu_export_shader(w.materials,
                                            IF material # None THEN material
                                            ELSE opt.gpu_shader_dummy_mat))
    ELSE IF material = None THEN raise(w)
    ELSE writeMaterial(w, material, clean_str(w.materials[material].name, <<>>), world)

\* lines 466-704
writeShapeGeometry(gs, mesh, mesh_id, mesh_name_x3d, is_uv, is_col, is_smooth, face_group, opt, gpu_shader) ==
    IF opt.use_triangulate
    THEN <<writeIndexedTriangleSet(gs[1], mesh, is_uv, is_col, is_smooth, face_group, opt,
                                   gpu_shader),
           gs[2]>>
    ELSE writeIndexedFaceSetNode(gs[1], mesh, mesh_id, mesh_name_x3d, is_uv, is_col, is_smooth,
                                 face_group, opt, gs[2])

writeShapeClose(gs) == <<fw(gs[1], Close("Shape")), gs[2]>>

writeShape(gs, mesh_id, mesh_name_x3d, ob, world, opt, item) ==
    LET w == gs[1]
        mesh == w.meshes[mesh_id]
        material == mesh_materials_of(mesh)[item.material_index + 1]
        is_smooth == \E k \in 1..Len(item.face_group) : mesh.faces[item.face_group[k] + 1].use_smooth
        is_col == mesh.vertex_colors_active
                  /\ (material = None \/ w.materials[material].use_vertex_color_paint)
    IN  IF item.face_group = <<>> \/ ~w.ok THEN gs
        ELSE writeShapeClose(
                 writeShapeGeometry(
                     <<fw(writeShapeMaterial(
                              writeShapeTexture(
                                  fws(w, <<Open("Shape", [material_index |-> item.material_index,
                                                          image |-> item.image,
                                                          face_group |-> item.face_group,
                                                          mesh |-> mesh_id]),
                                           Open("Appearance", NoData)>>),
                                  mesh, item.material_index, item.image, opt),
                              material, world, ob, opt),
                          Close("Appearance")),
                       gs[2]>>,
                     mesh, mesh_id, mesh_name_x3d, is_uv_of(mesh), is_col, is_smooth,
                     item.face_group, opt,
                     gpu_export_shader(w.materials, IF material # None THEN material
                                                    ELSE opt.gpu_shader_dummy_mat)))

\* line 392: for (material_index, image), face_group in face_groups_items
RECURSIVE writeShapes(_, _, _, _, _, _, _, _)
writeShapes(gs, mesh_id, mesh_name_x3d, ob, world, opt, items, k) ==
    IF k > Len(items) THEN gs
    ELSE writeShapes(writeShape(gs, mesh_id, mesh_name_x3d, ob, world, opt, items[k]),
                     mesh_id, mesh_name_x3d, ob, world, opt, items, k + 1)

(***************************************************************************)
(* writeIndexedFaceSet (lines 276-720)                                     *)
(***************************************************************************)
\* wrapper_of that tests the billboard flag before the halo flag
wrapper_of_billboard_first(mesh) ==
    LET data == mesh.uv_data
        texface_use_halo == mesh.uv_textures_active /\ \E i \in 1..Len(data) : data[i].use_halo
        texface_use_billboard == mesh.uv_textures_active /\ \E i \in 1..Len(data) : data[i].use_billboard
        texface_use_collision == mesh.uv_textures_active /\ \E i \in 1..Len(data) : data[i].use_collision
    IN  IF texface_use_billboard THEN "use_billnode"
        ELSE IF texface_use_halo THEN "use_halonode"
        ELSE IF texface_use_collision THEN "use_collnode"
        ELSE ""

\* lines 284-310: the node wrapped around the Transform, "" if none
wrapper_of(mesh) ==
    LET data == mesh.uv_data
        texface_use_halo == mesh.uv_textures_active /\ \E i \in 1..Len(data) : data[i].use_halo
        texface_use_billboard == mesh.uv_textures_active /\ \E i \in 1..Len(data) : data[i].use_billboard
        texface_use_collision == mesh.uv_textures_active /\ \E i \in 1..Len(data) : data[i].use_collision
    IN  IF texface_use_halo THEN "use_halonode"
        ELSE IF texface_use_billboard THEN "use_billnode"
        ELSE IF texface_use_collision THEN "use_collnode"
        ELSE ""

wrapper_open(w, wrapper) ==
    IF wrapper = "use_halonode" THEN fw(w, Open("Billboard", [axisOfRotation |-> <<0, 0, 0>>]))
    ELSE IF wrapper = "use_billnode" THEN fw(w, Open("Billboard", [axisOfRotation |-> <<0, 1, 0>>]))
    ELSE IF wrapper = "use_collnode" THEN fw(w, Open("Collision", [enabled |-> FALSE]))
    ELSE w

wrapper_close(w, wrapper) ==
    IF wrapper = "use_halonode" THEN fw(w, Close("Billboard"))
    ELSE IF wrapper = "use_billnode" THEN fw(w, Close("Billboard"))
    ELSE IF wrapper = "use_collnode" THEN fw(w, Close("Collision"))
    ELSE w

\* writeGroup that leaves the tag of the mesh alone
writeGroup_untagged(w, ob, mesh_id, world, opt, unique) ==
    LET mesh == w.meshes[mesh_id]
        mesh_name_x3d == clean_str(mesh.name, rsvd_)
        items == face_groups_items_of(w.materials, w.images, mesh, unique)
        w1 == fw([w EXCEPT !.mesh_faces = mesh.faces, !.face_groups_items = items],
                 Tok("Group", "open", <<"G", "_">> \o mesh_name_x3d, NoId, mesh_id, NoData))
        gs == writeShapes(<<w1, FALSE>>, mesh_id, mesh_name_x3d, ob, world, opt, items, 1)
    IN  fw(gs[1], Close("Group"))

\* lines 329-707: the mesh is written in full
writeGroup(w, ob, mesh_id, world, opt, unique) ==
    LET mesh == w.meshes[mesh_id]
        mesh_name_x3d == clean_str(mesh.name, rsvd_)
        items == face_groups_items_of(w.materials, w.images, mesh, unique)
        w1 == fw([w EXCEPT !.meshes[mesh_id].tag = TRUE, !.mesh_faces = mesh.faces,
                           !.face_groups_items = items],
                 Tok("Group", "open", <<"G", "_">> \o mesh_name_x3d, NoId, mesh_id, NoData))
        gs == writeShapes(<<w1, FALSE>>, mesh_id, mesh_name_x3d, ob, world, opt, items, 1)
    IN  fw(gs[1], Close("Group"))

\* lines 326-707
writeMesh(w, ob, mesh_id, world, opt, unique) ==
    IF w.meshes[mesh_id].tag
    THEN fw(w, Tok("Group", "empty", NoId,
                   <<"G", "_">> \o clean_str(w.meshes[mesh_id].name, rsvd_), mesh_id, NoData))
    ELSE writeGroup(w, ob, mesh_id, world, opt, unique)

\* writeIndexedFaceSet that tests mesh.faces after the mesh was tagged
writeIndexedFaceSet_tagged(w, ob, mesh_id, world, opt, unique) ==
    IF w.meshes[mesh_id].faces = <<>> /\ ~w.meshes[mesh_id].tag
    THEN [w EXCEPT !.meshes[mesh_id].tag = TRUE]
    ELSE wrapper_close(
             fw(writeMesh(fw(wrapper_open(w, wrapper_of(w.meshes[mesh_id])),
                             Tok("Transform", "open", clean_str(ob.name, rsvd_), NoId, ob.id,
                                 [matrix_world |-> ob.id])),
                          ob, mesh_id, world, opt, unique),
                Close("Transform")),
             wrapper_of(w.meshes[mesh_id]))

\* lines 276-720
writeIndexedFaceSet(w, ob, mesh_id, world, opt, unique) ==
    IF w.meshes[mesh_id].faces = <<>> THEN w
    ELSE wrapper_close(
             fw(writeMesh(fw(wrapper_open(w, wrapper_of(w.meshes[mesh_id])),
                             Tok("Transform", "open", clean_str(ob.name, rsvd_), NoId, ob.id,
                                 [matrix_world |-> ob.id])),
                          ob, mesh_id, world, opt, unique),
                Close("Transform")),
             wrapper_of(w.meshes[mesh_id]))

(***************************************************************************)
(* The other node writers                                                  *)
(***************************************************************************)
\* lines 126-147
writeHeader(w, opt) ==
    fw(fw(fw(fw(fw(fw(fw(w,
        Open("X3D", [profile |-> IF opt.use_h3d THEN "H3DAPI" ELSE "Immersive"])),
        Open("head", NoData)),
        Empty("meta", [name |-> "filename"])),
        Empty("meta", [name |-> "generator"])),
        Empty("meta", [name |-> "translator"])),
        Close("head")),
        Open("Scene", NoData))

\* lines 149-154
writeFooter(w) == fw(fw(w, Close("Scene")), Close("X3D"))

\* lines 180-181
writeNavigationInfo(w) == fw(w, Empty("NavigationInfo", NoData))

\* lines 950-952
grd_triple(world) == clamp_color(world.horizon_color)

sky_triple(world) == clamp_color(world.zenith_color)

mix_triple(world) ==
    clamp_color([i \in 1..3 |-> (grd_triple(world)[i] + sky_triple(world)[i]) \div 2])

\* lines 955-984: the colours of groundColor and of skyColor
groundColor(world) ==
    LET blending == world.blending
    IN  fmt_3g_color(
        IF blending = <<FALSE, FALSE, FALSE>> THEN grd_triple(world)
        ELSE IF blending = <<TRUE, FALSE, FALSE>> THEN grd_triple(world) \o mix_triple(world)
        ELSE IF blending = <<TRUE, FALSE, TRUE>> THEN sky_triple(world) \o grd_triple(world)
        ELSE IF blending = <<FALSE, FALSE, TRUE>> THEN sky_triple(world)
        ELSE IF blending = <<TRUE, TRUE, TRUE>> THEN sky_triple(world) \o grd_triple(world)
        ELSE grd_triple(world))

skyColor(world) ==
    LET blending == world.blending
    IN  fmt_3g_color(
        IF blending = <<FALSE, FALSE, FALSE>> THEN grd_triple(world)
        ELSE IF blending = <<TRUE, FALSE, FALSE>> THEN sky_triple(world) \o mix_triple(world)
        ELSE IF blending = <<TRUE, FALSE, TRUE>>
        THEN sky_triple(world) \o grd_triple(world) \o sky_triple(world)
        ELSE IF blending = <<FALSE, FALSE, TRUE>> THEN sky_triple(world)
        ELSE IF blending = <<TRUE, TRUE, TRUE>> THEN sky_triple(world) \o grd_triple(world)
        ELSE sky_triple(world))

\* lines 941-1005; secureName is called once
writeBackground(w, world, nodeID) ==
    IF world.present
    THEN fw(w, Tok("Background", "empty", secureName(world.name, nodeID), NoId, None,
                   [blending |-> world.blending, groundColor |-> groundColor(world),
                    skyColor |-> skyColor(world)]))
    ELSE w

\* lines 166-178
writeFog(w, world) ==
    IF world.present /\ world.use_mist 
    THEN fw(w, Empty("Fog", [fogType |-> world.falloff,
                             color |-> fmt_3g_color(clamp_color(world.horizon_color))]))
    ELSE w

\* lines 156-164
writeViewpoint(w, ob) ==
    fw(w, Tok("Viewpoint", "empty", clean_str(ob.name, rsvd_), NoId, ob.id, [description |-> ob.name]))

\* lines 185-190, 216-222, 237-243
amb_intensity(world) ==
    IF world.present
    THEN (((world.ambient_color[1] + world.ambient_color[2] + world.ambient_color[3]) \div 3) * 2) \div 5
    ELSE 0

\* lines 183-254 and the dispatch of lines 1063-1073
writeLight(w, ob, world) ==
    LET node == IF ob.lamp_type = "POINT" THEN "PointLight"
                ELSE IF ob.lamp_type = "SPOT" THEN "SpotLight"
                ELSE "DirectionalLight"
    IN  fw(w, Tok(node, "empty", clean_str(ob.name, rsvd_), NoId, ob.id,
                  [ambientIntensity |-> amb_intensity(world),
                   intensity |-> Min({(ob.lamp_energy * 4) \div 7, One}),
                   color |-> clamp_color(ob.lamp_color)]))



(***************************************************************************)
(* bpy.data: creation of data blocks                                       *)
(***************************************************************************)
name_suffix(k) ==
    <<".">> \o (IF k < 10 THEN <<"0", "0">> ELSE IF k < 100 THEN <<"0">> ELSE <<>>) \o str(k)

\* the name a new data block gets: names are unique within a collection
bpy_new_name(names, name) ==
    IF name \notin names THEN name
    ELSE name \o name_suffix(Min({k \in 1..(Cardinality(names) + 1) : name \o name_suffix(k) \notin names}))

names_of(ids) == {ids[i].name : i \in 1..Len(ids)}

X3D_DYMMY_MAT == <<"X", "3", "D", "_", "D", "Y", "M", "M", "Y", "_", "M", "A", "T">>

\* line 118: bpy.data.materials.new('X3D_DYMMY_MAT')
materials_new(materials, name) ==
    Append(materials,
           [name |-> bpy_new_name(names_of(materials), name), tag |-> FALSE,
            use_face_texture |-> FALSE, use_vertex_color_paint |-> FALSE, texture_slots |-> <<>>])

\* line 1050: ob.to_mesh(...) adds the evaluated mesh to bpy.data.meshes
to_mesh(meshes, ob) ==
    Append(meshes, [ob.to_mesh EXCEPT !.name = bpy_new_name(names_of(meshes), ob.to_mesh.name),
                                      !.tag = FALSE])

\* tag_all that leaves the tags as they are
tag_all_kept(ids, value) == ids

\* lines 1014-1016: collection.tag(False)
tag_all(ids, value) == [i \in 1..Len(ids) |-> [ids[i] EXCEPT !.tag = value]]

(***************************************************************************)
(* Scenes                                                                  *)
(***************************************************************************)
Slot(type, image, flip) ==
    [mtex |-> TRUE, tex |-> TRUE, type |-> type, image |-> image, offset |-> <<1, 2>>,
     scale |-> <<2, 3>>, repeat_x |-> 2, repeat_y |-> 1, use_flip_axis |-> flip]

EmptySlot == [Slot("NONE", None, FALSE) EXCEPT !.mtex = FALSE, !.tex = FALSE]

Material(name, use_face_texture, use_vertex_color_paint, texture_slots) ==
    [name |-> name, tag |-> FALSE, use_face_texture |-> use_face_texture,
     use_vertex_color_paint |-> use_vertex_color_paint, texture_slots |-> texture_slots,
     diffuse_color |-> <<800, 800, 800>>, specular_color |-> <<One, One, One>>,
     specular_intensity |-> 500, emit |-> 0, ambient |-> One, specular_hardness |-> 50,
     alpha |-> One, use_shadeless |-> FALSE]

\* material 1 takes the image of the faces; 2 and 3 bring image 1 themselves
SceneMaterials ==
    << Material(<<"a">>, TRUE, TRUE, <<>>),
       Material(<<"b">>, FALSE, FALSE, <<Slot("IMAGE", 1, FALSE)>>),
       Material(<<"c">>, FALSE, TRUE,
                <<EmptySlot, Slot("CLOUDS", None, FALSE), Slot("IMAGE", None, FALSE),
                  Slot("IMAGE", 1, TRUE)>>) >>

Image(name, use_tiles) ==
    [name |-> name, tag |-> FALSE, filepath |-> name, use_tiles |-> use_tiles, tiles_x |-> 2,
     tiles_y |-> 2]

ImageNames == {<<"b">>, <<"1", "a">>}

SceneImages == <<Image(<<"b">>, FALSE), Image(<<"1", "a">>, TRUE)>>

Vert(n) == [co |-> <<n, 0, 0>>, normal |-> <<0, 0, 1>>]

Face(vertices, material_index, use_smooth) ==
    [vertices |-> vertices, material_index |-> material_index, use_smooth |-> use_smooth]

UVs == << <<0, 0>>, <<1, 0>>, <<1, 1>>, <<0, 1>> >>

TexFace(uv, image, use_image) ==
    [uv |-> uv, image |-> image, use_image |-> use_image, use_halo |-> FALSE,
     use_billboard |-> FALSE, use_collision |-> FALSE]

Red == <<One, 0, 0>>

Blue == <<0, 0, One>>

\* a colour with a channel above 1.0
Glare == <<2 * One, One \div 2, 0>>

ColFace(color) == [color |-> color]

Mesh(name, vertices, faces, mats, uv_data, col_data) ==
    [name |-> name, tag |-> FALSE, vertices |-> vertices, faces |-> faces, materials |-> mats,
     uv_textures_active |-> uv_data # <<>>, uv_data |-> uv_data,
     vertex_colors_active |-> col_data # <<>>, col_data |-> col_data,
     show_double_sided |-> TRUE, auto_smooth_angle |-> 30]

Quad == <<0, 1, 2, 3>>

\* a quad and a triangle with two materials, per-face images and vertex colours
Cube ==
    Mesh(<<"C", "u">>, <<Vert(0), Vert(1), Vert(2), Vert(3)>>,
         <<Face(Quad, 0, TRUE), Face(<<0, 2, 3>>, 1, FALSE), Face(<<2, 1, 3>>, 0, FALSE)>>,
         <<1, 2>>,
         <<TexFace(UVs, 2, TRUE), TexFace(SubSeq(UVs, 1, 3), 2, TRUE), TexFace(SubSeq(UVs, 1, 3), 1, TRUE)>>,
         <<ColFace(<<Red, Red, Blue, Blue>>), ColFace(<<Red, Red, Red, Red>>),
           ColFace(<<Glare, Red, Red, Red>>)>>)

\* two triangles with materials 2 and 3, no layers
Plane ==
    Mesh(<<"P", ".", "l">>, <<Vert(0), Vert(1), Vert(2), Vert(3)>>,
         <<Face(<<0, 1, 2>>, 0, FALSE), Face(<<0, 2, 3>>, 1, FALSE), Face(<<1, 2, 3>>, 0, TRUE)>>,
         <<2, 3>>, <<>>, <<>>)

\* no faces
Loose == Mesh(<<"L", "O", "D">>, <<Vert(0)>>, <<>>, <<1>>, <<>>, <<>>)

\* no material slots
Bare == Mesh(<<"1">>, <<Vert(0), Vert(1), Vert(2)>>, <<Face(<<0, 1, 2>>, 0, FALSE)>>, <<>>, <<>>, <<>>)

\* what to_mesh makes of the text object
TextMesh ==
    Mesh(<<"M", "e", "s", "h">>, <<Vert(0), Vert(1), Vert(2)>>, <<Face(<<0, 1, 2>>, 0, FALSE)>>,
         <<3>>, <<>>, <<>>)

SceneMeshes == <<Cube, Plane, Loose, Bare>>

Object(id, name, type, data) ==
    [id |-> id, name |-> name, type |-> type, data |-> data, is_visible |-> TRUE, select |-> FALSE,
     is_modified |-> FALSE, has_derived |-> TRUE, to_mesh |-> TextMesh, to_mesh_raises |-> FALSE,
     lamp_type |-> "NONE", lamp_color |-> Glare, lamp_energy |-> One]

SceneObjects ==
    << Object(1, <<"o", "1">>, "MESH", 1),
       [Object(2, <<"o", "2">>, "MESH", 1) EXCEPT !.is_modified = TRUE, !.to_mesh = Cube],
       Object(3, <<"o", " ", "3">>, "MESH", 2),
       Object(4, <<"T", "x">>, "FONT", None),
       Object(5, <<"o", "5">>, "MESH", 4),
       Object(6, <<"o", "6">>, "MESH", 3),
       Object(7, <<"C", "a", "m">>, "CAMERA", None),
       [Object(8, <<"I", "S">>, "LAMP", None) EXCEPT !.lamp_type = "SPOT"],
       Object(9, <<"o", "9">>, "MESH", 3) >>

NoWorld == [present |-> FALSE, name |-> <<>>, use_mist |-> FALSE, falloff |-> "LINEAR",
            blending |-> <<FALSE, FALSE, FALSE>>, ambient_color |-> <<0, 0, 0>>,
            horizon_color |-> <<0, 0, 0>>, zenith_color |-> <<0, 0, 0>>]

World ==
    [NoWorld EXCEPT !.present = TRUE, !.name = <<"W", "o", "r", "l", "d">>, !.use_mist = TRUE,
                    !.ambient_color = <<100, 100, 200>>, !.horizon_color = Glare,
                    !.zenith_color = Blue]

Settings ==
    [use_apply_modifiers : BOOLEAN, use_selection : {TRUE}, use_triangulate : BOOLEAN,
     use_normals : BOOLEAN, use_h3d : BOOLEAN]

(***************************************************************************)
(* State                                                                   *)
(***************************************************************************)
VARIABLES
    objects,            \* scene.objects
    world,              \* scene.world
    settings,           \* the arguments the operator passes to export()
    meshes,             \* bpy.data.meshes
    materials,          \* bpy.data.materials
    images,             \* bpy.data.images
    opt,                \* the arguments and locals of the running export()
    nodeID,             \* secureName.nodeID
    out,                \* the file of the current or last export
    pc,                 \* "idle", "running", "done" or "aborted" (left by an exception)
    ob_next,            \* position of the for loop of line 1033 in the exported objects
    mesh_faces,         \* the local mesh_faces of the last mesh written in full
    face_groups_items,  \* the local face_groups_items of that mesh
    prev                \* pc, out and settings of the export before the current one

vars == <<objects, world, settings, meshes, materials, images, opt, nodeID, out, pc, ob_next,
          mesh_faces, face_groups_items, prev>>

scene == <<objects, world, settings>>

\* lines 1028-1031: the objects the for loop of line 1033 visits, as indices of scene.objects
exported_objects(obs, o) ==
    SelectSeq([i \in 1..Len(obs) |-> i],
              LAMBDA i : obs[i].is_visible /\ (obs[i].select \/ ~o.use_selection))

(***************************************************************************)
(* export_main, one iteration of the loop of line 1033 (lines 1035-1079)   *)
(***************************************************************************)
uses_to_mesh(ob, o) == ob.type # "MESH" \/ (o.use_apply_modifiers /\ ob.is_modified)

\* the set whose iteration order decides the order of the keys of face_groups
unique_of(w, ob, o) ==
    IF ob.type \notin {"MESH", "CURVE", "SURF", "FONT"} THEN {}
    ELSE IF uses_to_mesh(ob, o) THEN mesh_faces_image_unique_of(w.materials, ob.to_mesh)
    ELSE mesh_faces_image_unique_of(w.materials, w.meshes[ob.data])

\* line 1061: bpy.data.meshes.remove(me), not reached when the writer raised
meshes_remove(w, me) ==
    IF w.ok THEN [w EXCEPT !.meshes = [i \in 1..(me - 1) |-> w.meshes[i]]] ELSE w

export_object(w, ob, wld, o, unique) ==
    IF ~ob.has_derived THEN w
    ELSE IF ob.type = "CAMERA" THEN writeViewpoint(w, ob)
    ELSE IF ob.type \in {"MESH", "CURVE", "SURF", "FONT"}
    THEN IF uses_to_mesh(ob, o)
         THEN IF ob.to_mesh_raises THEN w
              ELSE meshes_remove(writeIndexedFaceSet([w EXCEPT !.meshes = to_mesh(w.meshes, ob)],
                                                     ob, Len(w.meshes) + 1, wld, o, unique),
                                 Len(w.meshes) + 1)
         ELSE writeIndexedFaceSet(w, ob, ob.data, wld, o, unique)
    ELSE IF ob.type = "LAMP" THEN writeLight(w, ob, wld)
    ELSE w

W == [out |-> out, meshes |-> meshes, materials |-> materials, images |-> images, ok |-> TRUE,
      mesh_faces |-> mesh_faces, face_groups_items |-> face_groups_items]

(***************************************************************************)
(* Actions                                                                 *)
(***************************************************************************)
\* export() up to the for loop of line 1033
BeginExport ==
    /\ pc # "running"
    /\ settings.use_h3d => Len(materials) - Len(SceneMaterials) < MaxDummies
    /\ LET materials1 == IF settings.use_h3d THEN materials_new(materials, X3D_DYMMY_MAT)
                         ELSE materials
           o == [use_apply_modifiers |-> settings.use_apply_modifiers,
                 use_selection |-> settings.use_selection,
                 use_triangulate |-> settings.use_triangulate,
                 use_normals |-> settings.use_normals,
                 use_h3d |-> settings.use_h3d,
                 gpu_shader_dummy_mat |-> IF settings.use_h3d THEN Len(materials1) ELSE None]
           w0 == [W EXCEPT !.out = <<>>,
                           !.meshes = tag_all(meshes, FALSE),
                           !.materials = tag_all(materials1, FALSE),
                           !.images = tag_all(images, FALSE)]
           w1 == writeFog(writeBackground(writeNavigationInfo(writeHeader(w0, o)), world, 0), world)
       IN  /\ opt' = o
           /\ nodeID' = IF world.present THEN 1 ELSE 0
           /\ out' = w1.out
           /\ meshes' = w1.meshes
           /\ materials' = w1.materials
           /\ images' = w1.images
    /\ pc' = "running"
    /\ ob_next' = 1
    /\ prev' = [pc |-> pc, out |-> out, settings |-> settings]
    /\ UNCHANGED <<scene, mesh_faces, face_groups_items>>

\* the state an iteration of the for loop leaves
Exported(w) ==
    /\ out' = w.out
    /\ meshes' = w.meshes
    /\ materials' = w.materials
    /\ images' = w.images
    /\ mesh_faces' = w.mesh_faces
    /\ face_groups_items' = w.face_groups_items
    /\ pc' = IF w.ok THEN "running" ELSE "aborted"

\* one iteration of the for loop of line 1033
ExportObject ==
    /\ pc = "running"
    /\ ob_next <= Len(exported_objects(objects, opt))
    /\ \E order \in iteration_orders(unique_of(W, objects[exported_objects(objects, opt)[ob_next]],
                                               opt)) :
          Exported(export_object(W, objects[exported_objects(objects, opt)[ob_next]], world, opt,
                                 order))
    /\ ob_next' = ob_next + 1
    /\ UNCHANGED <<scene, opt, nodeID, prev>>

\* lines 1081-1084: the loop is over
EndExport ==
    /\ pc = "running"
    /\ ob_next > Len(exported_objects(objects, opt))
    /\ out' = writeFooter(W).out
    /\ pc' = "done"
    /\ UNCHANGED <<scene, meshes, materials, images, opt, nodeID, ob_next, mesh_faces,
                   face_groups_items, prev>>

Next == BeginExport \/ ExportObject \/ EndExport


(***************************************************************************)
(* The scene of the fixtures above with any selection of at most           *)
(* MaxObjects objects, exported any number of times.                       *)
(***************************************************************************)
\* nothing exported yet
Idle ==
    /\ opt = [s \in DOMAIN settings \cup {"gpu_shader_dummy_mat"} |->
                IF s = "gpu_shader_dummy_mat" THEN None ELSE FALSE]
    /\ nodeID = 0
    /\ out = <<>>
    /\ pc = "idle"
    /\ ob_next = 1
    /\ mesh_faces = <<>>
    /\ face_groups_items = <<>>
    /\ prev = [pc |-> "idle", out |-> <<>>, settings |-> settings]

Init ==
    /\ \E sel \in SUBSET (1..Len(SceneObjects)) :
          /\ Cardinality(sel) <= MaxObjects
          /\ objects = [i \in 1..Len(SceneObjects) |-> [SceneObjects[i] EXCEPT !.select = i \in sel]]
    /\ world \in {NoWorld, World}
    /\ settings \in Settings
    /\ \E t \in BOOLEAN :
          /\ meshes = tag_all(SceneMeshes, t)
          /\ materials = tag_all(SceneMaterials, t)
          /\ images = tag_all(SceneImages, t)
    /\ Idle

Spec == Init /\ [][Next]_vars

(***************************************************************************)
(* One object with any mesh of at most MaxFaces faces whose faces take     *)
(* any material slot and any image: the input of the face grouping of      *)
(* lines 339-390.                                                          *)
(***************************************************************************)
\* <<use_image, image>> of a face of the active UV layer
TexOptions == {<<FALSE, 1>>, <<TRUE, None>>, <<TRUE, 1>>, <<TRUE, 2>>}

\* mesh.materials: two slots, one slot, no slot, an empty slot
MaterialSlots == {<<1, 2>>, <<3>>, <<>>, <<1, None>>}

GroupFaceVertices(k) == IF k % 2 = 1 THEN Quad ELSE <<0, 2, 3>>

GroupMesh(n, mm, mi, tex) ==
    Mesh(<<"C", "u">>, <<Vert(0), Vert(1), Vert(2), Vert(3)>>,
         [k \in 1..n |-> Face(GroupFaceVertices(k), mi[k], FALSE)],
         mm,
         IF tex = <<>> THEN <<>>
         ELSE [k \in 1..n |-> TexFace(SubSeq(UVs, 1, Len(GroupFaceVertices(k))), tex[k][2], tex[k][1])],
         <<>>)

GroupMeshes ==
    UNION { UNION { { GroupMesh(n, mm, mi, tex) :
                        mi \in [1..n -> 0..(Len(mesh_materials_of([materials |-> mm])) - 1)],
                        tex \in {<<>>} \cup [1..n -> TexOptions] } :
                    mm \in MaterialSlots } :
            n \in 1..MaxFaces }

InitGroup ==
    /\ objects = <<[Object(1, <<"o", "1">>, "MESH", 1) EXCEPT !.select = TRUE]>>
    /\ world = NoWorld
    /\ settings \in [use_apply_modifiers : {FALSE}, use_selection : {TRUE},
                     use_triangulate : {FALSE}, use_normals : {FALSE}, use_h3d : BOOLEAN]
    /\ \E mesh \in GroupMeshes : meshes = <<mesh>>
    /\ materials = SceneMaterials
    /\ \E n1 \in ImageNames, n2 \in ImageNames :
          /\ n1 # n2
          /\ images = <<Image(n1, FALSE), Image(n2, TRUE)>>
    /\ Idle

SpecGroup == InitGroup /\ [][Next]_vars

(***************************************************************************)
(* One object with any mesh of at most MaxFaces faces over four vertices   *)
(* with any UV and colour layers, triangulated: the input of the welding   *)
(* of lines 472-611.                                                       *)
(***************************************************************************)
FaceVertices == {Quad, <<2, 1, 3>>}

\* the UVs of the corners of a face: all the same, or all different
UVPatterns == {"same", "distinct"}

\* the colours of the corners of a face: all the same, or alternating
ColPatterns == {"same", "mixed"}

WeldMesh(n, mm, fv, uvp, colp) ==
    Mesh(<<"C", "u">>, <<Vert(0), Vert(1), Vert(2), Vert(3)>>,
         [k \in 1..n |-> Face(fv[k], 0, FALSE)],
         mm,
         IF uvp = <<>> THEN <<>>
         ELSE [k \in 1..n |->
                 TexFace([j \in 1..Len(fv[k]) |-> IF uvp[k] = "same" THEN UVs[1] ELSE UVs[j]],
                         None, FALSE)],
         IF colp = <<>> THEN <<>>
         ELSE [k \in 1..n |->
                 ColFace([j \in 1..Len(fv[k]) |->
                            IF colp[k] = "same" \/ j % 2 = 1 THEN Red ELSE Blue])])

WeldMeshes ==
    UNION { UNION { { WeldMesh(n, mm, fv, uvp, colp) :
                        fv \in [1..n -> FaceVertices],
                        uvp \in {<<>>} \cup [1..n -> UVPatterns],
                        colp \in {<<>>} \cup [1..n -> ColPatterns] } :
                    mm \in {<<1>>, <<2>>} } :
            n \in 1..MaxFaces }

InitWeld ==
    /\ objects = <<[Object(1, <<"o", "1">>, "MESH", 1) EXCEPT !.select = TRUE]>>
    /\ world = NoWorld
    /\ settings \in [use_apply_modifiers : {FALSE}, use_selection : {TRUE},
                     use_triangulate : {TRUE}, use_normals : BOOLEAN, use_h3d : {FALSE}]
    /\ \E mesh \in WeldMeshes : meshes = <<mesh>>
    /\ materials = SceneMaterials
    /\ images = SceneImages
    /\ Idle

SpecWeld == InitWeld /\ [][Next]_vars

(***************************************************************************)
(* One object with any mesh of at most MaxFaces faces whose faces carry    *)
(* any of the flags of lines 292-295, or that has no UV layer.             *)
(***************************************************************************)
FaceFlags == SUBSET {"use_halo", "use_billboard", "use_collision"}

WrapMesh(n, flags) ==
    Mesh(<<"C", "u">>, <<Vert(0), Vert(1), Vert(2), Vert(3)>>,
         [k \in 1..n |-> Face(GroupFaceVertices(k), 0, FALSE)],
         <<2>>,
         IF flags = <<>> THEN <<>>
         ELSE [k \in 1..n |->
                 [TexFace(SubSeq(UVs, 1, Len(GroupFaceVertices(k))), None, FALSE)
                      EXCEPT !.use_halo = "use_halo" \in flags[k],
                             !.use_billboard = "use_billboard" \in flags[k],
                             !.use_collision = "use_collision" \in flags[k]]],
         <<>>)

WrapMeshes ==
    UNION { { WrapMesh(n, flags) : flags \in {<<>>} \cup [1..n -> FaceFlags] } : n \in 1..MaxFaces }

InitWrap ==
    /\ objects = <<[Object(1, <<"o", "1">>, "MESH", 1) EXCEPT !.select = TRUE]>>
    /\ world = NoWorld
    /\ settings \in [use_apply_modifiers : {FALSE}, use_selection : {TRUE},
                     use_triangulate : BOOLEAN, use_normals : {FALSE}, use_h3d : {FALSE}]
    /\ \E mesh \in WrapMeshes : meshes = <<mesh>>
    /\ materials = SceneMaterials
    /\ images = SceneImages
    /\ Idle

SpecWrap == InitWrap /\ [][Next]_vars

(***************************************************************************)
(* One object with one face and one material of any settings: the input    *)
(* of writeMaterial, lines 722-754.                                        *)
(***************************************************************************)
DiffuseColors == {<<800, 800, 800>>, Glare, <<0, 300, One>>}

ShadedMaterials ==
    { [Material(<<"a">>, FALSE, FALSE, <<>>)
          EXCEPT !.diffuse_color = diffuse_color, !.emit = emit, !.ambient = ambient,
                 !.specular_intensity = specular_intensity,
                 !.specular_hardness = specular_hardness, !.alpha = alpha,
                 !.use_shadeless = use_shadeless] :
        diffuse_color \in DiffuseColors, emit \in {0, One}, ambient \in {0, One},
        specular_intensity \in {0, 500}, specular_hardness \in {1, 511},
        alpha \in {0, 250, One}, use_shadeless \in BOOLEAN }

InitMaterial ==
    /\ objects = <<[Object(1, <<"o", "1">>, "MESH", 1) EXCEPT !.select = TRUE]>>
    /\ world \in {NoWorld, World}
    /\ settings \in [use_apply_modifiers : {FALSE}, use_selection : {TRUE},
                     use_triangulate : {FALSE}, use_normals : {FALSE}, use_h3d : {FALSE}]
    /\ meshes = <<Mesh(<<"C", "u">>, <<Vert(0), Vert(1), Vert(2), Vert(3)>>,
                       <<Face(Quad, 0, FALSE)>>, <<1>>, <<>>, <<>>)>>
    /\ \E material \in ShadedMaterials : materials = <<material>>
    /\ images = SceneImages
    /\ Idle

SpecMaterial == InitMaterial /\ [][Next]_vars

(***************************************************************************)
(* One object with a mesh of at most MaxFaces faces that share vertices    *)
(* and take either of two material slots, in either geometry mode: face    *)
(* groups of one mesh with corners in common.                              *)
(***************************************************************************)
SharedMesh(n, mi, uvp, colp) ==
    [WeldMesh(n, <<1, 3>>, [k \in 1..n |-> GroupFaceVertices(k)], uvp, colp)
        EXCEPT !.faces = [k \in 1..n |-> Face(GroupFaceVertices(k), mi[k], FALSE)]]

SharedMeshes ==
    UNION { { SharedMesh(n, mi, uvp, colp) :
                mi \in [1..n -> {0, 1}],
                uvp \in {<<>>} \cup [1..n -> UVPatterns],
                colp \in {<<>>} \cup [1..n -> ColPatterns] } :
            n \in 1..MaxFaces }

InitShared ==
    /\ objects = <<[Object(1, <<"o", "1">>, "MESH", 1) EXCEPT !.select = TRUE]>>
    /\ world = NoWorld
    /\ settings \in [use_apply_modifiers : {FALSE}, use_selection : {TRUE},
                     use_triangulate : BOOLEAN, use_normals : BOOLEAN, use_h3d : {FALSE}]
    /\ \E mesh \in SharedMeshes : meshes = <<mesh>>
    /\ materials = SceneMaterials
    /\ images = SceneImages
    /\ Idle

SpecShared == InitShared /\ [][Next]_vars

(***************************************************************************)
(* One camera or lamp with any name of at most MaxNameLen characters: the  *)
(* input of clean_str, lines 80-93.                                        *)
(***************************************************************************)
NameChars == {" ", ",", ".", "1", "I", "S", "a"}

ObjectNames == UNION { [1..n -> NameChars] : n \in 1..MaxNameLen }

InitNames ==
    /\ \E name \in ObjectNames, type \in {"CAMERA", "LAMP"} :
          objects = <<[Object(1, name, type, None) EXCEPT !.select = TRUE]>>
    /\ world = NoWorld
    /\ settings \in [use_apply_modifiers : {FALSE}, use_selection : {TRUE},
                     use_triangulate : {FALSE}, use_normals : {FALSE}, use_h3d : {FALSE}]
    /\ meshes = <<>>
    /\ materials = <<>>
    /\ images = <<>>
    /\ Idle

SpecNames == InitNames /\ [][Next]_vars

(***************************************************************************)
(* Objects whose derived objects cannot be created or whose to_mesh        *)
(* raises, before objects that are written: the input of the loop of       *)
(* lines 1033-1079.                                                        *)
(***************************************************************************)
FailObjects ==
    << [Object(1, <<"T", "1">>, "FONT", None) EXCEPT !.to_mesh_raises = TRUE],
       [Object(2, <<"o", "2">>, "MESH", 2) EXCEPT !.has_derived = FALSE],
       [Object(3, <<"o", "3">>, "MESH", 2) EXCEPT !.is_modified = TRUE, !.to_mesh_raises = TRUE],
       Object(4, <<"C", "a", "m">>, "CAMERA", None),
       Object(5, <<"o", "5">>, "MESH", 4) >>

InitFail ==
    /\ \E sel \in SUBSET (1..Len(FailObjects)) :
          /\ Cardinality(sel) <= MaxObjects
          /\ objects = [i \in 1..Len(FailObjects) |-> [FailObjects[i] EXCEPT !.select = i \in sel]]
    /\ world = NoWorld
    /\ settings \in [use_apply_modifiers : BOOLEAN, use_selection : {TRUE},
                     use_triangulate : {FALSE}, use_normals : {FALSE}, use_h3d : BOOLEAN]
    /\ meshes = SceneMeshes
    /\ materials = SceneMaterials
    /\ images = SceneImages
    /\ Idle

SpecFail == InitFail /\ [][Next]_vars

\* the loop of line 1033 has an object left: ENABLED <<ExportObject>>_vars
CanExportObject == pc = "running" /\ ob_next <= Len(exported_objects(objects, opt))

\* export_main runs to its end or to an exception, no step of it waits for anything:
\* weak fairness of ExportObject, written with CanExportObject, and of EndExport
SpecFailLive ==
    /\ SpecFail
    /\ ([]<>(~CanExportObject) \/ []<><<ExportObject>>_vars)
    /\ WF_vars(EndExport)

(***************************************************************************)
(* Objects with different names that clean_str maps to one identifier, and *)
(* text objects that to_mesh evaluates one after the other: the input of   *)
(* the DEF attributes of lines 158, 204-248, 319 and 331.                  *)
(***************************************************************************)
DefObjects ==
    << Object(1, <<"o", " ", "3">>, "CAMERA", None),
       [Object(2, <<"o", "_", "3">>, "LAMP", None) EXCEPT !.lamp_type = "POINT"],
       Object(3, <<"o", ".", "3">>, "MESH", 2),
       Object(4, <<"T", "1">>, "FONT", None),
       Object(5, <<"T", "2">>, "FONT", None) >>

InitDefs ==
    /\ \E sel \in SUBSET (1..Len(DefObjects)) :
          /\ Cardinality(sel) <= MaxObjects
          /\ objects = [i \in 1..Len(DefObjects) |-> [DefObjects[i] EXCEPT !.select = i \in sel]]
    /\ world \in {NoWorld, World}
    /\ settings \in [use_apply_modifiers : {FALSE}, use_selection : {TRUE},
                     use_triangulate : BOOLEAN, use_normals : BOOLEAN, use_h3d : {FALSE}]
    /\ meshes = SceneMeshes
    /\ materials = SceneMaterials
    /\ images = SceneImages
    /\ Idle

SpecDefs == InitDefs /\ [][Next]_vars

(***************************************************************************)
(* secureName called up to MaxCalls times with any of a few names after    *)
(* its counter was set to 0 (line 274); out holds one element for each     *)
(* call, with the identifier returned as its DEF.                          *)
(***************************************************************************)
SecureNames ==
    { <<>>, <<"W", "o", "r", "l", "d">>, <<"1", "a", "b">>, <<"_", "1", "a", "b", "0">>,
      <<"a", ".", "b">>, <<"a", "_", "b">> }

InitSecure ==
    /\ objects = <<>>
    /\ world = NoWorld
    /\ settings \in [use_apply_modifiers : {FALSE}, use_selection : {TRUE},
                     use_triangulate : {FALSE}, use_normals : {FALSE}, use_h3d : {FALSE}]
    /\ meshes = <<>>
    /\ materials = <<>>
    /\ images = <<>>
    /\ Idle

\* lines 256-272: one call
CallSecureName ==
    /\ nodeID < MaxCalls
    /\ \E name \in SecureNames :
          out' = Append(out, Tok("Background", "empty", secureName(name, nodeID), NoId, None, NoData))
    /\ nodeID' = nodeID + 1
    /\ UNCHANGED <<scene, meshes, materials, images, opt, pc, ob_next, mesh_faces,
                   face_groups_items, prev>>

SpecSecure == InitSecure /\ [][CallSecureName]_vars

(***************************************************************************)
(* Properties of the file written: DEF and USE                             *)
(***************************************************************************)
\* the positions of the file holding an element of one of the nodes for the data block
Tokens(nodes, asset) == {i \in 1..Len(out) : out[i].node \in nodes /\ out[i].asset = asset}

Defs(nodes, asset) == {i \in Tokens(nodes, asset) : out[i].def # NoId}

Uses(nodes, asset) == {i \in Tokens(nodes, asset) : out[i].use # NoId}

MaterialNodes == {"Material", "ComposedShader"}

\* C1: every USE= written for a mesh, material or image (and for the coordinates and
\* normals of a mesh) comes after an element of the same node, written for the same data
\* block in the same file, whose DEF= is the very same identifier.
C1_UseFollowsDef ==
    \A j \in 1..Len(out) :
        out[j].use # NoId =>
            \E i \in 1..(j - 1) : /\ out[i].node = out[j].node
                                  /\ out[i].asset = out[j].asset
                                  /\ out[i].def = out[j].use

\* a finished file with a USE= of every kind
C1_Witness ==
    /\ pc = "done"
    /\ \A node \in {"Group", "Material", "ImageTexture", "Coordinate", "Normal"} :
          \E i \in 1..Len(out) : out[i].node = node /\ out[i].use # NoId

\* the object of scene.objects the Transform at position i was written for writes its
\* own mesh data block, not a temporary mesh
OwnMesh(i) ==
    /\ out[i].node = "Transform"
    /\ out[i].kind = "open"
    /\ ~uses_to_mesh(objects[out[i].asset], opt)

MeshOf(i) == objects[out[i].asset].data

GroupId(m) == <<"G", "_">> \o clean_str(meshes[m].name, rsvd_)

\* C2: of the objects of one export that refer to the same mesh, the first gets a
\* Transform holding <Group DEF="G_mesh">, every later one a Transform of its own holding
\* nothing but <Group USE="G_mesh" />; the Group is defined once.
C2_SharedMesh ==
    \A j \in 1..Len(out) :
        OwnMesh(j) =>
            /\ Cardinality(Defs({"Group"}, MeshOf(j))) = 1
            /\ IF \E i \in 1..(j - 1) : OwnMesh(i) /\ MeshOf(i) = MeshOf(j)
               THEN /\ out[j + 1] = Tok("Group", "empty", NoId, GroupId(MeshOf(j)), MeshOf(j), NoData)
                    /\ out[j + 2] = Close("Transform")
               ELSE out[j + 1] = Tok("Group", "open", GroupId(MeshOf(j)), NoId, MeshOf(j), NoData)

\* two objects of a finished file share mesh 1
C2_Witness ==
    /\ pc = "done"
    /\ \E i, j \in 1..Len(out) :
          /\ i < j
          /\ OwnMesh(i)
          /\ OwnMesh(j)
          /\ out[i].asset # out[j].asset
          /\ MeshOf(i) = MeshOf(j)

\* C3: the elements a file holds for a material or an image are one DEF, written first,
\* then nothing but USE; the tag of the data block is set from the DEF on.
C3_MaterialImageOnce ==
    /\ \A m \in 1..Len(materials) :
          /\ Cardinality(Defs(MaterialNodes, m)) <= 1
          /\ \A i \in Defs(MaterialNodes, m) :
                /\ materials[m].tag
                /\ \A j \in Tokens(MaterialNodes, m) : j # i => (i < j /\ out[j].use # NoId)
          /\ Uses(MaterialNodes, m) # {} => Defs(MaterialNodes, m) # {}
    /\ \A im \in 1..Len(images) :
          /\ Cardinality(Defs({"ImageTexture"}, im)) <= 1
          /\ \A i \in Defs({"ImageTexture"}, im) :
                /\ images[im].tag
                /\ \A j \in Tokens({"ImageTexture"}, im) : j # i => (i < j /\ out[j].use # NoId)
          /\ Uses({"ImageTexture"}, im) # {} => Defs({"ImageTexture"}, im) # {}

\* a material and an image are each written three times or more
C3_Witness ==
    /\ \E m \in 1..Len(materials) : Cardinality(Tokens(MaterialNodes, m)) >= 3
    /\ \E im \in 1..Len(images) : Cardinality(Tokens({"ImageTexture"}, im)) >= 3

\* C4: while an export runs and after it, a mesh, material or image is tagged only if
\* this export wrote its DEF, so the first element written for it is the DEF, whatever
\* tags an earlier export left; and the Background is named with the counter at 0.
C4_FreshTags ==
    pc # "idle" =>
        /\ \A m \in 1..Len(meshes) :
              /\ meshes[m].tag <=> Defs({"Group"}, m) # {}
              /\ Tokens({"Group"}, m) # {} => out[Min(Tokens({"Group"}, m))].def # NoId
        /\ \A m \in 1..Len(materials) :
              /\ materials[m].tag <=> Defs(MaterialNodes, m) # {}
              /\ Tokens(MaterialNodes, m) # {} => out[Min(Tokens(MaterialNodes, m))].def # NoId
        /\ \A im \in 1..Len(images) :
              /\ images[im].tag <=> Defs({"ImageTexture"}, im) # {}
              /\ Tokens({"ImageTexture"}, im) # {}
                    => out[Min(Tokens({"ImageTexture"}, im))].def # NoId
        /\ nodeID = (IF world.present THEN 1 ELSE 0)
        /\ \A i \in 1..Len(out) :
              out[i].node = "Background" => out[i].def = secureName(world.name, 0)

\* an export after one that an exception left with tags set writes a DEF again
C4_Witness ==
    /\ prev.pc = "aborted"
    /\ pc = "running"
    /\ world.present
    /\ \E m \in 1..Len(meshes) : Defs({"Group"}, m) # {}
    /\ \E m \in 1..Len(materials) : Defs(MaterialNodes, m) # {}
    /\ \E im \in 1..Len(images) : Defs({"ImageTexture"}, im) # {}

(***************************************************************************)
(* Properties of the face groups                                           *)
(***************************************************************************)
\* the places <<g, k>> of face_groups_items that hold face f
PlacesOf(f) ==
    {p \in UNION {{<<g, k>> : k \in 1..Len(face_groups_items[g].face_group)} :
                  g \in 1..Len(face_groups_items)} :
        face_groups_items[p[1]].face_group[p[2]] = f}

\* C5: the face groups of a mesh partition its faces: every face index is held by
\* exactly one group, once, and the groups hold nothing but face indices of the mesh.
C5_Partition ==
    /\ \A f \in 0..(Len(mesh_faces) - 1) : Cardinality(PlacesOf(f)) = 1
    /\ \A g \in 1..Len(face_groups_items) :
          \A k \in 1..Len(face_groups_items[g].face_group) :
              face_groups_items[g].face_group[k] \in 0..(Len(mesh_faces) - 1)

\* a mesh of two faces or more was split in two groups or more, next to empty ones
C5_Witness ==
    /\ pc = "done"
    /\ Len(mesh_faces) >= 2
    /\ Cardinality({g \in 1..Len(face_groups_items) : face_groups_items[g].face_group # <<>>}) >= 2
    /\ \E g \in 1..Len(face_groups_items) : face_groups_items[g].face_group = <<>>

\* the Shape elements of the file, in the order written
Shapes == SelectSeq(out, LAMBDA t : t.node = "Shape" /\ t.kind = "open")

NonEmptyGroups == SelectSeq(face_groups_items, LAMBDA item : item.face_group # <<>>)

\* C6: the face groups come in ascending order of material index, then of image name
\* with the groups without image first, whatever the order in which the set of images
\* and the dict of groups are iterated; the faces of a group keep their order in the
\* mesh; and the Shape elements are written in that order.
C6_GroupOrder ==
    /\ \A g, h \in 1..Len(face_groups_items) :
          g < h =>
             \/ face_groups_items[g].material_index < face_groups_items[h].material_index
             \/ /\ face_groups_items[g].material_index = face_groups_items[h].material_index
                /\ str_lt(image_name(images, face_groups_items[g].image),
                          image_name(images, face_groups_items[h].image))
    /\ \A g \in 1..Len(face_groups_items) :
          \A k, l \in 1..Len(face_groups_items[g].face_group) :
              k < l => face_groups_items[g].face_group[k] < face_groups_items[g].face_group[l]
    /\ Len(Shapes) <= Len(NonEmptyGroups)
    /\ \A k \in 1..Len(Shapes) :
          /\ Shapes[k].data.material_index = NonEmptyGroups[k].material_index
          /\ Shapes[k].data.image = NonEmptyGroups[k].image
          /\ Shapes[k].data.face_group = NonEmptyGroups[k].face_group

\* two Shapes of one material, the first without image or with the image of the smaller
\* name, which is not the image met first
C6_Witness ==
    /\ pc = "done"
    /\ Len(Shapes) >= 2
    /\ Shapes[1].data.material_index = Shapes[2].data.material_index
    /\ Shapes[1].data.image = 2
    /\ Shapes[2].data.image = 1
    /\ Shapes[1].data.face_group[1] > Shapes[2].data.face_group[1]

(***************************************************************************)
(* Properties of the IndexedTriangleSet of a face group                    *)
(***************************************************************************)
\* the positions of the file where an IndexedTriangleSet opens
TriangleSets == {i \in 1..Len(out) : out[i].node = "IndexedTriangleSet" /\ out[i].kind = "open"}

\* the Shape element the IndexedTriangleSet at i is written in
ShapeOf(i) ==
    out[CHOOSE k \in 1..i : /\ out[k].node = "Shape"
                            /\ out[k].kind = "open"
                            /\ \A l \in (k + 1)..i : out[l].node # "Shape"]

\* the mesh, the face group and the material of the IndexedTriangleSet at i
TsMesh(i) == meshes[ShapeOf(i).data.mesh]

TsFaces(i) == ShapeOf(i).data.face_group

TsMaterial(i) == mesh_materials_of(TsMesh(i))[ShapeOf(i).data.material_index + 1]

\* the attributes of the group that are active
TsUV(i) == TsMesh(i).uv_textures_active

TsCol(i) ==
    /\ TsMesh(i).vertex_colors_active
    /\ TsMaterial(i) = None \/ materials[TsMaterial(i)].use_vertex_color_paint

\* the elements written inside the IndexedTriangleSet at i
TsElements(i) ==
    {k \in (i + 1)..Len(out) : \A l \in (i + 1)..k : out[l].node # "IndexedTriangleSet"}

TsElement(i, node) == out[CHOOSE k \in TsElements(i) : out[k].node = node]

TsHas(i, node) == \E k \in TsElements(i) : out[k].node = node

IsQuad(i, k) == Len(TsMesh(i).faces[TsFaces(i)[k] + 1].vertices) = 4

\* where the triples of the k-th face of the group start in index, when every quad
\* before it took two triples and every triangle one
TriStart(i, k) == k + Cardinality({h \in 1..(k - 1) : IsQuad(i, h)})

\* the output vertex index names for corner j (from 1) of the k-th face of the group
CornerVertex(i, k, j) ==
    IF j <= 3 THEN out[i].data.index[TriStart(i, k)][j] ELSE out[i].data.index[TriStart(i, k) + 1][3]

\* the corners <<k, j>> of the faces of the group, and their order
TsCorners(i) ==
    UNION {{<<k, j>> : j \in 1..Len(TsMesh(i).faces[TsFaces(i)[k] + 1].vertices)} :
           k \in 1..Len(TsFaces(i))}

CornerBefore(p, q) == p[1] < q[1] \/ (p[1] = q[1] /\ p[2] < q[2])

\* the original vertex of a corner and what its active attributes hold
CornerOrigin(i, p) ==
    <<TsMesh(i).faces[TsFaces(i)[p[1]] + 1].vertices[p[2]],
      IF TsUV(i) THEN TsMesh(i).uv_data[TsFaces(i)[p[1]] + 1].uv[p[2]] ELSE <<>>,
      IF TsCol(i) THEN TsMesh(i).col_data[TsFaces(i)[p[1]] + 1].color[p[2]] ELSE <<>>>>

\* C7: within the IndexedTriangleSet of a face group, two corners are given the same
\* output vertex exactly when they are the same original vertex with the same active
\* attributes (UV if the mesh has an active UV layer, colour if it has active vertex
\* colours that the material paints); attributes that are not active do not count.
C7_Weld ==
    \A i \in TriangleSets :
        \A p, q \in TsCorners(i) :
            (CornerVertex(i, p[1], p[2]) = CornerVertex(i, q[1], q[2]))
                <=> (CornerOrigin(i, p) = CornerOrigin(i, q))

\* two faces with UVs and colours share a vertex that is written once, as their corners
\* agree, and a vertex that is written twice, as their corners differ in UV or colour
C7_Witness ==
    \E i \in TriangleSets :
        /\ TsUV(i)
        /\ TsCol(i)
        /\ \E p, q, r, s \in TsCorners(i) :
              /\ p[1] # q[1]
              /\ CornerOrigin(i, p) = CornerOrigin(i, q)
              /\ r[1] # s[1]
              /\ CornerOrigin(i, r)[1] = CornerOrigin(i, s)[1]
              /\ CornerOrigin(i, r) # CornerOrigin(i, s)

\* the original vertices the output vertices of a triple stand for
TripleVertices(i, t) ==
    [n \in 1..3 |-> TsElement(i, "Coordinate").data.vertex[out[i].data.index[t][n] + 1]]

\* C8: a quad of the face group is written as the two triples of its corners (0,1,2)
\* and (0,2,3), a triangle as the one triple of its corners (0,1,2), in the order of the
\* faces; index holds one triple per triangle and two per quad.
C8_Triangulate ==
    \A i \in TriangleSets :
        /\ Len(out[i].data.index)
              = Len(TsFaces(i)) + Cardinality({k \in 1..Len(TsFaces(i)) : IsQuad(i, k)})
        /\ \A k \in 1..Len(TsFaces(i)) :
              LET fv == TsMesh(i).faces[TsFaces(i)[k] + 1].vertices
                  t == TriStart(i, k)
              IN  /\ TripleVertices(i, t) = <<fv[1], fv[2], fv[3]>>
                  /\ IsQuad(i, k) =>
                        /\ TripleVertices(i, t + 1) = <<fv[1], fv[3], fv[4]>>
                        /\ out[i].data.index[t + 1][1] = out[i].data.index[t][1]
                        /\ out[i].data.index[t + 1][2] = out[i].data.index[t][3]

\* a quad after a triangle
C8_Witness ==
    /\ pc = "done"
    /\ \E i \in TriangleSets :
          /\ Len(TsFaces(i)) >= 2
          /\ ~IsQuad(i, 1)
          /\ IsQuad(i, 2)
          /\ Len(out[i].data.index) = 3

\* the output vertices of the corners before corner p
SeenBefore(i, p) ==
    {CornerVertex(i, q[1], q[2]) : q \in {c \in TsCorners(i) : CornerBefore(c, p)}}

TsVertices(i) == {CornerVertex(i, p[1], p[2]) : p \in TsCorners(i)}

LoneQuad(i) ==
    /\ Len(TsFaces(i)) = 1
    /\ IsQuad(i, 1)
    /\ TsUV(i)
    /\ \A j, l \in 1..4 :
          j # l => TsMesh(i).uv_data[TsFaces(i)[1] + 1].uv[j] # TsMesh(i).uv_data[TsFaces(i)[1] + 1].uv[l]

\* C9: the output vertices are numbered from 0 without gaps in the order in which the
\* corners of the faces of the group first need them; Coordinate, Normal,
\* TextureCoordinate and Color, where written, hold one entry per output vertex; a lone
\* quad with four different UVs gives four output vertices and the triples (0,1,2), (0,2,3).
C9_Numbering ==
    \A i \in TriangleSets :
        /\ \A p \in TsCorners(i) :
              \/ CornerVertex(i, p[1], p[2]) \in SeenBefore(i, p)
              \/ CornerVertex(i, p[1], p[2]) = Cardinality(SeenBefore(i, p))
        /\ Len(TsElement(i, "Coordinate").data.point) = Cardinality(TsVertices(i))
        /\ \A t \in 1..Len(out[i].data.index) :
              \A n \in 1..3 : out[i].data.index[t][n] \in 0..(Cardinality(TsVertices(i)) - 1)
        /\ TsHas(i, "Normal") = opt.use_normals
        /\ TsHas(i, "Normal") =>
              Len(TsElement(i, "Normal").data.vector) = Cardinality(TsVertices(i))
        /\ TsHas(i, "TextureCoordinate") = TsUV(i)
        /\ TsHas(i, "TextureCoordinate") =>
              Len(TsElement(i, "TextureCoordinate").data.point) = Cardinality(TsVertices(i))
        /\ TsHas(i, "Color") = TsCol(i)
        /\ TsHas(i, "Color") => Len(TsElement(i, "Color").data.color) = Cardinality(TsVertices(i))
        /\ LoneQuad(i) =>
              /\ Cardinality(TsVertices(i)) = 4
              /\ out[i].data.index = << <<0, 1, 2>>, <<0, 2, 3>> >>

\* a lone quad with four different UVs, written with normals
C9_Witness ==
    /\ pc = "done"
    /\ \E i \in TriangleSets : LoneQuad(i) /\ TsHas(i, "Normal") /\ TsHas(i, "Color")

(***************************************************************************)
(* Two exports of one scene                                                *)
(***************************************************************************)
\* what the file reads: the elements without the data block they were written for
Text(file) == [i \in 1..Len(file) |-> [file[i] EXCEPT !.asset = None]]

\* C10: an export that ran to its end after another that ran to its end, with the same
\* options and nothing changed in the scene by its user, wrote the very same file.
C10_Deterministic ==
    (pc = "done" /\ prev.pc = "done" /\ prev.settings = settings) => Text(out) = Text(prev.out)

(***************************************************************************)
(* Face groups without material                                            *)
(***************************************************************************)
\* the positions of the file where the Shape of a face group without material opens
NoMaterialShapes ==
    {i \in 1..Len(out) : /\ out[i].node = "Shape"
                         /\ out[i].kind = "open"
                         /\ out[i].data.mesh \in 1..Len(meshes)
                         /\ mesh_materials_of(meshes[out[i].data.mesh])
                                [out[i].data.material_index + 1] = None}

\* C11: in the baseline profile a face group whose material is None is written as a Shape
\* with an Appearance that is opened and closed and holds no Material; the export does
\* not abort and no Material element is written for the missing material.
C11_NoMaterialAppearance ==
    ~opt.use_h3d =>
        /\ pc # "aborted"
        /\ \A i \in NoMaterialShapes :
              \E k \in (i + 1)..Len(out) :
                  /\ out[k] = Close("Appearance")
                  /\ \A l \in (i + 1)..(k - 1) : out[l].node \notin {"Shape", "Material"}
        /\ \A i \in 1..Len(out) : out[i].node = "Material" => out[i].asset # None

(***************************************************************************)
(* Colours                                                                 *)
(***************************************************************************)
\* the colours an element of the file holds, each a sequence of channels
ColorsOf(tok) ==
    IF tok.node = "Material" /\ tok.def # NoId
    THEN {tok.data.diffuseColor, tok.data.specularColor, tok.data.emissiveColor}
    ELSE IF tok.node \in {"PointLight", "SpotLight", "DirectionalLight", "Fog"}
    THEN {tok.data.color}
    ELSE IF tok.node = "Background" THEN {tok.data.groundColor, tok.data.skyColor}
    ELSE IF tok.node = "Color" THEN Range(tok.data.color)
    ELSE {}

InRange(col) == \A c \in 1..Len(col) : 0 <= col[c] /\ col[c] <= One

\* C12: every colour channel in the file lies in [0,1]: those of the materials, the
\* lights, the fog and the background, and those of the Color element of an
\* IndexedTriangleSet or IndexedFaceSet, whatever the scene holds.
C12_ColorRange == \A i \in 1..Len(out) : \A col \in ColorsOf(out[i]) : InRange(col)

\* the same for the elements other than Color, which go through clamp_color
ClampedColorRange ==
    \A i \in 1..Len(out) : out[i].node # "Color" => \A col \in ColorsOf(out[i]) : InRange(col)

(***************************************************************************)
(* Meshes without faces                                                    *)
(***************************************************************************)
\* the exported objects that write their own mesh, which has no faces
FacelessObjects ==
    {o \in Range(exported_objects(objects, opt)) :
        /\ objects[o].type = "MESH"
        /\ ~uses_to_mesh(objects[o], opt)
        /\ meshes[objects[o].data].faces = <<>>}

\* C13: an object whose mesh has no faces writes nothing (no Billboard or Collision, no
\* Transform, no Group, no Shape) and its mesh stays untagged, so that no object of the
\* export writes a Group, DEF or USE, for that mesh.
C13_NoFaces ==
    pc # "idle" =>
        \A o \in FacelessObjects :
            /\ ~meshes[objects[o].data].tag
            /\ \A i \in 1..Len(out) :
                  /\ out[i].node = "Transform" => out[i].asset # o
                  /\ out[i].node = "Group" => out[i].asset # objects[o].data
                  /\ out[i].node = "Shape" /\ out[i].kind = "open" =>
                         out[i].data.mesh # objects[o].data

\* two objects with the same mesh without faces were exported, with an object that wrote
\* its element between them, and the export went on to its end
C13_Witness ==
    /\ pc = "done"
    /\ \E o1, o2 \in FacelessObjects :
          /\ o1 < o2
          /\ objects[o1].data = objects[o2].data
          /\ \E i \in 1..Len(out) :
                /\ out[i].node \in {"Transform", "Viewpoint", "SpotLight"}
                /\ out[i].asset \in Range(exported_objects(objects, opt))
                /\ o1 < out[i].asset
                /\ out[i].asset < o2

(***************************************************************************)
(* The node around the Transform                                           *)
(***************************************************************************)
\* the positions of the file holding a Billboard or Collision tag
Wrappers == {i \in 1..Len(out) : out[i].node \in {"Billboard", "Collision"}}

\* some face of the active UV layer of the mesh has the flag set
AnyFace(mesh, flag) ==
    mesh.uv_textures_active /\ \E k \in 1..Len(mesh.uv_data) : mesh.uv_data[k][flag]

\* the tags at i and j are the opening tag given and its closing tag, and the file has
\* no other Billboard or Collision tag
WrappedIn(i, j, tag) ==
    /\ i >= 1
    /\ j <= Len(out)
    /\ out[i] = tag
    /\ out[j] = Close(tag.node)
    /\ Wrappers = {i, j}

\* C14: the Transform of an object whose mesh has an active UV layer lies directly in
\* one node chosen over the flags of all faces: a Billboard with axisOfRotation 0 0 0
\* if a face has the halo flag, else a Billboard with axisOfRotation 0 1 0 if a face has
\* the billboard flag, else a Collision if a face has the collision flag, else in no such
\* node; the node opened before the Transform is the one closed after it.
C14_Wrapper ==
    \A i, j \in 1..Len(out) :
        (/\ out[i].node = "Transform" /\ out[i].kind = "open"
         /\ out[j] = Close("Transform")
         /\ meshes[objects[out[i].asset].data].uv_textures_active) =>
            LET mesh == meshes[objects[out[i].asset].data]
            IN  IF AnyFace(mesh, "use_halo")
                THEN WrappedIn(i - 1, j + 1, Open("Billboard", [axisOfRotation |-> <<0, 0, 0>>]))
                ELSE IF AnyFace(mesh, "use_billboard")
                THEN WrappedIn(i - 1, j + 1, Open("Billboard", [axisOfRotation |-> <<0, 1, 0>>]))
                ELSE IF AnyFace(mesh, "use_collision")
                THEN WrappedIn(i - 1, j + 1, Open("Collision", [enabled |-> FALSE]))
                ELSE Wrappers = {}

\* a mesh written with a halo face after a face with the other two flags
C14_Witness ==
    /\ pc = "done"
    /\ Wrappers # {}
    /\ \E k, l \in 1..Len(meshes[1].uv_data) :
          /\ k < l
          /\ meshes[1].uv_data[l].use_halo
          /\ ~meshes[1].uv_data[k].use_halo
          /\ meshes[1].uv_data[k].use_billboard
          /\ meshes[1].uv_data[k].use_collision

(***************************************************************************)
(* The data blocks of the scene                                            *)
(***************************************************************************)
\* C15: but for the tags, the meshes, materials and images of the scene are at any time
\* between the steps of an export, and after it, those the scene held before the first
\* export: no data block was added, none was removed or changed, and no temporary mesh
\* is left.
C15_SceneKept ==
    /\ tag_all(meshes, FALSE) = tag_all(SceneMeshes, FALSE)
    /\ tag_all(materials, FALSE) = tag_all(SceneMaterials, FALSE)
    /\ tag_all(images, FALSE) = tag_all(SceneImages, FALSE)

(***************************************************************************)
(* The nesting of the elements                                             *)
(***************************************************************************)
\* the elements open after the first n tags of the file, outermost first; a closing tag
\* that does not close the innermost open element leaves a "?"
RECURSIVE OpenElements(_)
OpenElements(n) ==
    IF n = 0 THEN <<>>
    ELSE LET open == OpenElements(n - 1)
         IN  IF out[n].kind = "open" THEN Append(open, out[n].node)
             ELSE IF out[n].kind = "empty" THEN open
             ELSE IF open # <<>> /\ open[Len(open)] = out[n].node
             THEN SubSeq(open, 1, Len(open) - 1)
             ELSE Append(open, "?")

\* the tags from the Shape opened at i up to where it closes, or to the end of the file
ShapeTags(i) == {k \in i..Len(out) : \A l \in (i + 1)..k : out[l - 1] # Close("Shape")}

\* the elements written directly inside the Shape opened at i
ShapeChildren(i) ==
    {k \in ShapeTags(i) : /\ out[k].kind \in {"open", "empty"}
                          /\ Len(OpenElements(k - 1)) = Len(OpenElements(i))}

\* the Shape opened at i holds one Appearance and one geometry node and is closed
WholeShape(i) ==
    /\ \E k \in ShapeTags(i) : out[k] = Close("Shape")
    /\ Cardinality({k \in ShapeChildren(i) : out[k].node = "Appearance"}) = 1
    /\ Cardinality({k \in ShapeChildren(i) :
                       out[k].node \in {"IndexedTriangleSet", "IndexedFaceSet"}}) = 1
    /\ \A k \in ShapeChildren(i) :
          out[k].node \in {"Appearance", "IndexedTriangleSet", "IndexedFaceSet"}

\* the Shape opened at i lies in a Group DEF that lies in a Transform
InGroupInTransform(i) ==
    LET open == OpenElements(i - 1)
    IN  /\ Len(open) >= 2
        /\ open[Len(open)] = "Group"
        /\ open[Len(open) - 1] = "Transform"
        /\ \E g \in 1..(i - 1) :
              /\ out[g].node = "Group" /\ out[g].kind = "open" /\ out[g].def # NoId
              /\ \A l \in (g + 1)..(i - 1) : out[l].node # "Group"

\* C16: every Shape of the file holds exactly one Appearance and exactly one
\* IndexedTriangleSet or IndexedFaceSet and lies in a Group DEF in a Transform, and once
\* an object is written every element opened for it is closed, the innermost first: only
\* X3D and Scene are open between two objects and nothing after the footer.
C16_WellFormed ==
    /\ \A i \in 1..Len(out) :
          out[i].node = "Shape" /\ out[i].kind = "open" => WholeShape(i) /\ InGroupInTransform(i)
    /\ pc \in {"running", "aborted"} => OpenElements(Len(out)) = <<"X3D", "Scene">>
    /\ pc = "done" => OpenElements(Len(out)) = <<>>

\* the same for the exports that no exception ended
WellFormedUnlessAborted == pc # "aborted" => C16_WellFormed

(***************************************************************************)
(* The Material element                                                    *)
(***************************************************************************)
\* the positions of the file where a shadeless material is defined
ShadelessMaterials ==
    {i \in 1..Len(out) : /\ out[i].node = "Material"
                         /\ out[i].def # NoId
                         /\ materials[out[i].asset].use_shadeless}

\* a colour with every channel above 1.0 set to 1.0 and every channel below 0 set to 0
Clamped(col) ==
    [c \in 1..Len(col) |-> IF col[c] > One THEN One ELSE IF col[c] < 0 THEN 0 ELSE col[c]]

\* C17: the Material element of a shadeless material has ambientIntensity 1, shininess 0
\* and the clamped diffuse colour of the material as its diffuseColor, specularColor and
\* emissiveColor, whatever emit, ambient, specular intensity and hardness are and with a
\* world or without; its transparency is 1 - alpha.
C17_Shadeless ==
    \A i \in ShadelessMaterials :
        /\ out[i].data.ambientIntensity = One
        /\ out[i].data.shininess = 0
        /\ out[i].data.diffuseColor = Clamped(materials[out[i].asset].diffuse_color)
        /\ out[i].data.specularColor = out[i].data.diffuseColor
        /\ out[i].data.emissiveColor = out[i].data.diffuseColor
        /\ out[i].data.transparency = One - materials[out[i].asset].alpha

\* a shadeless material with a diffuse channel above 1.0 that emits and is partly
\* transparent was written in a scene with a world
C17_Witness ==
    \E i \in ShadelessMaterials :
        /\ world.present
        /\ materials[out[i].asset].emit > 0
        /\ materials[out[i].asset].ambient > 0
        /\ materials[out[i].asset].alpha \notin {0, One}
        /\ \E c \in 1..3 : materials[out[i].asset].diffuse_color[c] > One

(***************************************************************************)
(* The welding over the face groups of a mesh                              *)
(***************************************************************************)
\* what the corners of the face group of the IndexedTriangleSet at i are
TsOrigins(i) == {CornerOrigin(i, p) : p \in TsCorners(i)}

\* C18 as stated: over all face groups of a mesh, two corners that are the same original
\* vertex with the same active attributes stand for one record: they lie in the same
\* IndexedTriangleSet and have the same output vertex there.
C18_PerMesh ==
    \A i, j \in TriangleSets :
        \A p \in TsCorners(i), q \in TsCorners(j) :
            (ShapeOf(i).data.mesh = ShapeOf(j).data.mesh
             /\ CornerOrigin(i, p) = CornerOrigin(j, q)) =>
                (i = j /\ CornerVertex(i, p[1], p[2]) = CornerVertex(j, q[1], q[2]))

\* C18, amended: the weld table is per face group. The IndexedTriangleSet of a face
\* group holds one output vertex for each original vertex with active attributes that
\* the corners of its own faces need, numbered from 0 within the group, also for those
\* another face group of the mesh holds as well; its Coordinate has these and no other.
C18_PerGroup ==
    \A i \in TriangleSets :
        /\ Len(TsElement(i, "Coordinate").data.point) = Cardinality(TsOrigins(i))
        /\ TsVertices(i) = 0..(Cardinality(TsOrigins(i)) - 1)
        /\ \A p \in TsCorners(i) :
              TsElement(i, "Coordinate").data.vertex[CornerVertex(i, p[1], p[2]) + 1]
                  = CornerOrigin(i, p)[1]

\* two face groups of a mesh with UVs and colours were written, the second with a corner
\* that is an original vertex with the attributes of a corner of the first
C18_Witness ==
    /\ pc = "done"
    /\ \E i, j \in TriangleSets :
          /\ i < j
          /\ TsUV(i)
          /\ TsCol(i)
          /\ \E p \in TsCorners(i), q \in TsCorners(j) : CornerOrigin(i, p) = CornerOrigin(j, q)

(***************************************************************************)
(* The image of a face                                                     *)
(***************************************************************************)
\* the material of face f (from 0) of the mesh written last, None if its slot is empty
\* or the mesh has no slot
FaceMaterial(f) == mesh_materials_of(meshes[1])[mesh_faces[f + 1].material_index + 1]

\* the image of the first texture slot of the material whose texture is of type IMAGE
FirstImageSlotImage(m) ==
    LET slots == materials[m].texture_slots
        typed == {k \in 1..Len(slots) : slots[k].mtex /\ slots[k].tex /\ slots[k].type = "IMAGE"}
    IN  IF typed = {} THEN None ELSE slots[Min(typed)].image

\* the image of the first texture slot of the material whose texture is of type IMAGE
\* and has an image
FirstSlotWithImage(m) ==
    LET slots == materials[m].texture_slots
        typed == {k \in 1..Len(slots) : /\ slots[k].mtex /\ slots[k].tex
                                        /\ slots[k].type = "IMAGE"
                                        /\ slots[k].image # None}
    IN  IF typed = {} THEN None ELSE slots[Min(typed)].image

\* the image of face f as claim C19 states it
StatedImage(f) ==
    IF /\ meshes[1].uv_textures_active
       /\ FaceMaterial(f) # None
       /\ materials[FaceMaterial(f)].use_face_texture
       /\ meshes[1].uv_data[f + 1].use_image
    THEN meshes[1].uv_data[f + 1].image
    ELSE IF FaceMaterial(f) = None THEN None
    ELSE FirstImageSlotImage(FaceMaterial(f))

\* the image of face f where a face without material counts as one whose material has
\* use_face_texture set, and a slot counts only if its texture has an image
AmendedImage(f) ==
    IF /\ meshes[1].uv_textures_active
       /\ (FaceMaterial(f) = None \/ materials[FaceMaterial(f)].use_face_texture)
       /\ meshes[1].uv_data[f + 1].use_image
    THEN meshes[1].uv_data[f + 1].image
    ELSE IF FaceMaterial(f) = None THEN None
    ELSE FirstSlotWithImage(FaceMaterial(f))

\* the faces of the mesh written last, from 0
GroupedFaces == 0..(Len(mesh_faces) - 1)

\* the image of the face group that holds face f
GroupImage(f) ==
    face_groups_items[CHOOSE g \in 1..Len(face_groups_items) :
                          f \in Range(face_groups_items[g].face_group)].image

\* every group is one without image and no material slot has two groups
OneGroupPerSlot ==
    \A g, h \in 1..Len(face_groups_items) :
        /\ face_groups_items[g].image = None
        /\ face_groups_items[g].material_index = face_groups_items[h].material_index => g = h

\* C19 as stated: a face is grouped under its per-face image exactly when the mesh has an
\* active UV layer, the material of the face has use_face_texture set and the face has
\* use_image set, otherwise under the image of the first image-type texture slot of its
\* material, or none; if that gives no face an image, every group is one without image
\* and there is at most one group per material slot.
C19_StatedImage ==
    /\ \A f \in GroupedFaces : GroupImage(f) = StatedImage(f)
    /\ (\A f \in GroupedFaces : StatedImage(f) = None) => OneGroupPerSlot

\* C19, amended: a face is grouped under its per-face image exactly when the mesh has an
\* active UV layer, the face has use_image set and its material has use_face_texture set
\* or the face has no material; otherwise under the image of the first texture slot of
\* its material that is of type IMAGE and holds an image, or none. If that gives no face
\* an image, every group is one without image and no material slot has two groups.
C19_EffectiveImage ==
    /\ \A f \in GroupedFaces : GroupImage(f) = AmendedImage(f)
    /\ (\A f \in GroupedFaces : AmendedImage(f) = None) => OneGroupPerSlot

\* a face without material was grouped under its per-face image, next to a face grouped
\* under none
C19_Witness ==
    \E f, g \in GroupedFaces :
        /\ FaceMaterial(f) = None
        /\ GroupImage(f) # None
        /\ GroupImage(f) = meshes[1].uv_data[f + 1].image
        /\ GroupImage(g) = None

\* a face was grouped under the image of the second image-type slot of its material, the
\* first holding none
C19_SlotWitness ==
    \E f \in GroupedFaces :
        /\ FaceMaterial(f) # None
        /\ GroupImage(f) # None
        /\ GroupImage(f) # FirstImageSlotImage(FaceMaterial(f))
        /\ GroupImage(f) = FirstSlotWithImage(FaceMaterial(f))

(***************************************************************************)
(* The TextureTransform of a face group                                    *)
(***************************************************************************)
\* the positions of the file where the baseline profile wrote the image of a face group
GroupImageTextures ==
    {i \in 3..Len(out) : /\ ~opt.use_h3d
                         /\ out[i].node = "ImageTexture"
                         /\ out[i - 1] = Open("Appearance", NoData)
                         /\ out[i - 2].node = "Shape"}

\* the material of the face group whose image is written at i, None if it has none
ImageMaterial(i) ==
    mesh_materials_of(meshes[out[i - 2].data.mesh])[out[i - 2].data.material_index + 1]

\* the texture of that material is driven by the per-face UV data
FaceTextured(i) == ImageMaterial(i) = None \/ materials[ImageMaterial(i)].use_face_texture

\* the texture slots of that material that bind an image
Bindings(i) ==
    IF ImageMaterial(i) = None THEN {}
    ELSE {k \in 1..Len(materials[ImageMaterial(i)].texture_slots) :
             LET slot == materials[ImageMaterial(i)].texture_slots[k]
             IN  slot.mtex /\ slot.tex /\ slot.type = "IMAGE" /\ slot.image # None}

\* the TextureTransform derived from a texture binding
FromBinding(mtex) ==
    Empty("TextureTransform",
          [translation |-> mtex.offset,
           scale |-> IF mtex.use_flip_axis
                     THEN <<mtex.scale[2] * mtex.repeat_y, 0 - mtex.scale[1] * mtex.repeat_x>>
                     ELSE <<mtex.scale[1] * mtex.repeat_x, mtex.scale[2] * mtex.repeat_y>>,
           rotation |-> IF mtex.use_flip_axis THEN "pi / -2.0" ELSE "0.0"])

\* the element after the image written at i is the TextureTransform of the first binding
BindingTransformAfter(i) ==
    /\ i < Len(out)
    /\ out[i + 1].node = "TextureTransform"
    /\ Bindings(i) # {} =>
          out[i + 1] = FromBinding(materials[ImageMaterial(i)].texture_slots[Min(Bindings(i))])

\* the element after the image written at i is the scale-only TextureTransform
TilesTransformAfter(i) ==
    /\ i < Len(out)
    /\ out[i + 1] = Empty("TextureTransform",
                          [scale |-> <<images[out[i].asset].tiles_x, images[out[i].asset].tiles_y>>])

\* C20 as stated: the image of a face group is followed by a scale-only TextureTransform
\* if the texture of the material is driven by the per-face UV data and the image uses
\* tiling, and in every other case by a TextureTransform derived from the texture
\* binding of the material.
C20_StatedTransform ==
    \A i \in GroupImageTextures :
        IF FaceTextured(i) /\ images[out[i].asset].use_tiles
        THEN TilesTransformAfter(i)
        ELSE BindingTransformAfter(i)

\* C20, amended: if the texture of the material is driven by the per-face UV data, the
\* image is followed by a scale-only TextureTransform when the image uses tiling and by
\* no TextureTransform when it does not; if it is not, the image is followed by the
\* TextureTransform derived from the texture binding of the material: translation the
\* offset, scale the scale times the repeat counts, and on axis flip the two scales
\* swapped, the second negated, with rotation pi / -2, else rotation 0.
C20_TextureTransform ==
    \A i \in GroupImageTextures :
        IF FaceTextured(i)
        THEN IF images[out[i].asset].use_tiles
             THEN TilesTransformAfter(i)
             ELSE i < Len(out) => out[i + 1].node # "TextureTransform"
        ELSE Bindings(i) # {} /\ BindingTransformAfter(i)

\* an image without tiling was written for a face group whose material takes the image
\* of the faces, and the export went on to its end
C20_Witness ==
    /\ pc = "done"
    /\ \E i \in GroupImageTextures :
          /\ FaceTextured(i)
          /\ ImageMaterial(i) # None
          /\ ~images[out[i].asset].use_tiles
          /\ out[i + 1].node = "Material"

\* an image was written for a face group whose material binds it with an axis flip
C20_FlipWitness ==
    \E i \in GroupImageTextures :
        /\ ~FaceTextured(i)
        /\ materials[ImageMaterial(i)].texture_slots[Min(Bindings(i))].use_flip_axis

(***************************************************************************)
(* Properties of the IndexedFaceSet of a face group                        *)
(***************************************************************************)
\* the positions of the file where an IndexedFaceSet opens
FaceSets == {i \in 1..Len(out) : out[i].node = "IndexedFaceSet" /\ out[i].kind = "open"}

\* the mesh and the face group of the IndexedFaceSet at i
FsMesh(i) == meshes[ShapeOf(i).data.mesh]

FsFaces(i) == ShapeOf(i).data.face_group

\* the IndexedFaceSet at i is the first one written for its mesh
FirstFaceSet(i) == \A h \in FaceSets : h < i => ShapeOf(h).data.mesh # ShapeOf(i).data.mesh

CoordId(mesh) == <<"c", "o", "o", "r", "d", "_">> \o clean_str(mesh.name, rsvd_)

NormalsId(mesh) == <<"n", "o", "r", "m", "a", "l", "s", "_">> \o clean_str(mesh.name, rsvd_)

\* C21: in IndexedFaceSet mode the first IndexedFaceSet written for a mesh holds
\* <Coordinate DEF="coord_mesh"> with the coordinates of all vertices of the mesh, and
\* with normals requested <Normal DEF="normals_mesh"> with all their normals; every
\* later IndexedFaceSet of the mesh holds <Coordinate USE> and <Normal USE> with these
\* identifiers and no data; coordIndex holds indices of the vertex list of the mesh; a
\* Shape that was closed holds an IndexedFaceSet.
C21_SharedCoordinates ==
    /\ \A i \in FaceSets :
          /\ out[i + 1].node = "Coordinate"
          /\ out[i + 1].kind = "empty"
          /\ (out[i + 2].node = "Normal") = opt.use_normals
          /\ \A n \in 1..Len(out[i].data.coordIndex) :
                out[i].data.coordIndex[n] \in {-1} \cup (0..(Len(FsMesh(i).vertices) - 1))
          /\ IF FirstFaceSet(i)
             THEN /\ out[i + 1].def = CoordId(FsMesh(i))
                  /\ out[i + 1].use = NoId
                  /\ out[i + 1].data.point
                        = [n \in 1..Len(FsMesh(i).vertices) |-> FsMesh(i).vertices[n].co]
                  /\ opt.use_normals =>
                        /\ out[i + 2].def = NormalsId(FsMesh(i))
                        /\ out[i + 2].use = NoId
                        /\ out[i + 2].data.vector
                              = [n \in 1..Len(FsMesh(i).vertices) |-> FsMesh(i).vertices[n].normal]
             ELSE /\ out[i + 1].def = NoId
                  /\ out[i + 1].use = CoordId(FsMesh(i))
                  /\ out[i + 1].data = NoData
                  /\ opt.use_normals =>
                        /\ out[i + 2].def = NoId
                        /\ out[i + 2].use = NormalsId(FsMesh(i))
                        /\ out[i + 2].data = NoData
    /\ ~opt.use_triangulate =>
          \A i \in 1..Len(out) :
              (/\ out[i].node = "Shape" /\ out[i].kind = "open"
               /\ \E k \in ShapeTags(i) : out[k] = Close("Shape")) =>
                  \E k \in ShapeTags(i) : k \in FaceSets

\* two face groups of a mesh were written with normals: the second uses the coordinates
\* and normals of the first
C21_Witness ==
    /\ pc = "done"
    /\ \E i, j \in FaceSets :
          /\ i < j
          /\ out[i + 1].def # NoId
          /\ out[j + 1].use = out[i + 1].def
          /\ out[j + 2].node = "Normal"
          /\ out[j + 2].use = out[i + 2].def

\* the material of the IndexedFaceSet at i and whether its colours are written
FsMaterial(i) == mesh_materials_of(FsMesh(i))[ShapeOf(i).data.material_index + 1]

FsCol(i) ==
    /\ FsMesh(i).vertex_colors_active
    /\ FsMaterial(i) = None \/ materials[FsMaterial(i)].use_vertex_color_paint

\* the elements written inside the IndexedFaceSet at i
FsElements(i) ==
    {k \in (i + 1)..Len(out) : \A l \in (i + 1)..k : out[l].node # "IndexedFaceSet"}

FsElement(i, node) == out[CHOOSE k \in FsElements(i) : out[k].node = node]

FsHas(i, node) == \E k \in FsElements(i) : out[k].node = node

\* the vertices of the k-th face of the group
FsVertices(i, k) == FsMesh(i).faces[FsFaces(i)[k] + 1].vertices

\* the quads among the faces of the group before the k-th
FsQuadsBefore(i, k) == Cardinality({h \in 1..(k - 1) : Len(FsVertices(i, h)) = 4})

\* the corners of the faces before the k-th, and the entries they take in an index list
FsCornersBefore(i, k) == 3 * (k - 1) + FsQuadsBefore(i, k)

FsEntriesBefore(i, k) == 4 * (k - 1) + FsQuadsBefore(i, k)

\* C22: in IndexedFaceSet mode coordIndex lists, face by face in the order of the group,
\* the vertices of a face and then -1; with an active UV layer texCoordIndex lists in
\* the same way the numbers 0, 1, 2, ... of the corners of the group, and
\* TextureCoordinate holds the UV of every corner in that order; with colours written,
\* Color holds one colour per face of the group, the one of its first corner, and
\* colorPerVertex is false.
C22_IndexLists ==
    \A i \in FaceSets :
        /\ Len(out[i].data.coordIndex) = FsEntriesBefore(i, Len(FsFaces(i)) + 1)
        /\ \A k \in 1..Len(FsFaces(i)) :
              /\ \A j \in 1..Len(FsVertices(i, k)) :
                    out[i].data.coordIndex[FsEntriesBefore(i, k) + j] = FsVertices(i, k)[j]
              /\ out[i].data.coordIndex[FsEntriesBefore(i, k + 1)] = -1
        /\ FsHas(i, "TextureCoordinate") = FsMesh(i).uv_textures_active
        /\ (out[i].data.texCoordIndex # <<>>) = FsMesh(i).uv_textures_active
        /\ FsMesh(i).uv_textures_active =>
              /\ Len(out[i].data.texCoordIndex) = Len(out[i].data.coordIndex)
              /\ Len(FsElement(i, "TextureCoordinate").data.point)
                    = FsCornersBefore(i, Len(FsFaces(i)) + 1)
              /\ \A k \in 1..Len(FsFaces(i)) :
                    /\ \A j \in 1..Len(FsVertices(i, k)) :
                          /\ out[i].data.texCoordIndex[FsEntriesBefore(i, k) + j]
                                = FsCornersBefore(i, k) + j - 1
                          /\ FsElement(i, "TextureCoordinate").data.point[FsCornersBefore(i, k) + j]
                                = FsMesh(i).uv_data[FsFaces(i)[k] + 1].uv[j]
                    /\ out[i].data.texCoordIndex[FsEntriesBefore(i, k + 1)] = -1
        /\ FsHas(i, "Color") = FsCol(i)
        /\ out[i].data.colorPerVertex = ~FsCol(i)
        /\ FsCol(i) =>
              /\ Len(FsElement(i, "Color").data.color) = Len(FsFaces(i))
              /\ \A k \in 1..Len(FsFaces(i)) :
                    FsElement(i, "Color").data.color[k]
                        = fmt_3g_color(FsMesh(i).col_data[FsFaces(i)[k] + 1].color[1])

\* a quad and a triangle after it were written as one face group with UVs and colours
C22_Witness ==
    /\ pc = "done"
    /\ \E i \in FaceSets :
          /\ Len(FsFaces(i)) >= 2
          /\ Len(FsVertices(i, 1)) = 4
          /\ Len(FsVertices(i, 2)) = 3
          /\ FsHas(i, "TextureCoordinate")
          /\ FsHas(i, "Color")

(***************************************************************************)
(* The identifiers of clean_str                                            *)
(***************************************************************************)
ObjectNodes == {"Viewpoint", "PointLight", "SpotLight", "DirectionalLight"}

\* bad occurs in s
occurs(bad, s) == \E i \in 1..(Len(s) - Len(bad) + 1) : SubSeq(s, i, i + Len(bad) - 1) = bad

\* the characters that clean_str puts before a name: the prefix, then the underscore
CleanPrefix(name) ==
    (IF isdigit(name[1]) THEN <<"_">> ELSE <<>>) \o (IF name \in x3d_names_reserved THEN rsvd_ ELSE <<>>)

\* C24: the identifier that clean_str makes of the name of an object, with the default
\* prefix, holds none of the strings that clean_str replaces, does not start with a
\* digit and is no reserved name; it is the name with "rsvd_" before it when the name
\* is reserved, "_" before it when the name starts with a digit, and every other
\* character kept or replaced one for one.
C24_CleanStr ==
    \A i \in 1..Len(out) :
        (out[i].node \in ObjectNodes /\ out[i].def # NoId) =>
            /\ \A k \in 1..Len(clean_str_bad) : ~occurs(clean_str_bad[k], out[i].def)
            /\ ~isdigit(out[i].def[1])
            /\ out[i].def \notin x3d_names_reserved
            /\ Len(out[i].def) = Len(CleanPrefix(objects[out[i].asset].name)) + Len(objects[out[i].asset].name)
            /\ SubSeq(out[i].def, 1, Len(CleanPrefix(objects[out[i].asset].name))) = CleanPrefix(objects[out[i].asset].name)

\* an object whose name starts with a digit and holds a space was written, and in
\* another run one whose name is reserved
C24_Witness ==
    /\ pc = "done"
    /\ \E i \in 1..Len(out) :
          /\ out[i].node \in ObjectNodes
          /\ out[i].def # NoId
          /\ isdigit(objects[out[i].asset].name[1])
          /\ occurs(<<" ">>, objects[out[i].asset].name)

C24_WitnessReserved ==
    /\ pc = "done"
    /\ \E i \in 1..Len(out) :
          /\ out[i].node \in ObjectNodes
          /\ out[i].def # NoId
          /\ objects[out[i].asset].name \in x3d_names_reserved

SecureCounter == nodeID = Len(out)

(***************************************************************************)
(* Objects that cannot be evaluated                                        *)
(***************************************************************************)
\* create_derived_objects gives None for ob, or to_mesh is called for it and raises
fails(ob, o) ==
    \/ ~ob.has_derived
    \/ ob.type \in {"MESH", "CURVE", "SURF", "FONT"} /\ uses_to_mesh(ob, o) /\ ob.to_mesh_raises

\* the object that the next iteration of the loop of line 1033 visits
ob_main == objects[exported_objects(objects, opt)[ob_next]]

\* the loop of line 1033 is at an object that fails
AtFailed == pc = "running" /\ ob_next <= Len(exported_objects(objects, opt)) /\ fails(ob_main, opt)

\* the iteration of an object that fails writes nothing, changes no data block and
\* goes on to the next object
Skipped ==
    [][AtFailed => /\ out' = out
                   /\ <<meshes', materials', images'>> = <<meshes, materials, images>>
                   /\ pc' = "running"
                   /\ ob_next' = ob_next + 1]_vars

\* the export that met an object that fails writes the footer in the end
FooterInTheEnd == AtFailed ~> pc = "done"

\* the export that met an object that fails ends, with the footer or with an exception
ExportEnds == AtFailed ~> (pc = "done" \/ pc = "aborted")

\* the same when the export meets no face without material in the baseline profile
\* (object 5 of FailObjects has the mesh Bare)
FooterWithMaterials == (AtFailed /\ (opt.use_h3d \/ ~objects[5].select)) ~> pc = "done"

\* C25: an object whose derived objects cannot be created or whose to_mesh raises
\* writes nothing and the loop goes on to the next object, and the export that met
\* such an object writes the footer in the end.
C25_ExportGoesOn == Skipped /\ FooterInTheEnd

\* an export that skipped an object wrote the footer
FailedAndDone ==
    /\ pc = "done"
    /\ \E k \in 1..Len(exported_objects(objects, opt)) : fails(objects[exported_objects(objects, opt)[k]], opt)

(***************************************************************************)
(* The identifiers of one file                                             *)
(***************************************************************************)
\* the data blocks of one kind have pairwise different names
DistinctNames(ids) == \A i, j \in 1..Len(ids) : i # j => ids[i].name # ids[j].name

\* the elements of the file that carry a DEF
AllDefs == {i \in 1..Len(out) : out[i].def # NoId}

\* C26: when the objects, the meshes, the materials and the images of the scene have
\* pairwise different names within each kind, no two DEF attributes of one file hold
\* the same identifier.
C26_DistinctDefs ==
    (DistinctNames(objects) /\ DistinctNames(meshes) /\ DistinctNames(materials) /\ DistinctNames(images))
        => \A i, j \in AllDefs : i # j => out[i].def # out[j].def

\* the same for the Groups of the meshes alone
DistinctGroupDefs ==
    \A i, j \in AllDefs : (i # j /\ out[i].node = "Group" /\ out[j].node = "Group") => out[i].def # out[j].def

====
